---------------------------- MODULE Spec2Model ----------------------------
(***************************************************************************)
(* Model of the CalorieAILENS backend agents: the ten-stage meal-analysis  *)
(* pipeline (agents/orchestrator.py) and the agents it chains.             *)
(*                                                                         *)
(* Conventions                                                             *)
(*  - a Python dict is a function with a finite set of string keys; a key  *)
(*    that is absent from the dict is absent from the DOMAIN;              *)
(*  - a Python str that the code inspects character by character is a      *)
(*    sequence of one-character strings;                                   *)
(*  - a call that may raise yields Raise or Return(value);                 *)
(*  - a remote language-model call yields an element of a response set:    *)
(*    the API failed, the text is not JSON, or the text parses to a dict;  *)
(*  - a float is an exact rational <<numerator, denominator>>.             *)
(***************************************************************************)
EXTENDS Integers, Sequences, FiniteSets, TLC

VARIABLES
    pc,        \* analyze_meal: the stage about to run
    req,       \* analyze_meal: the caller's arguments
    results,   \* analyze_meal: the `results` dict without its "agents" entry
    agents,    \* analyze_meal: results["agents"]
    calls,     \* analyze_meal: the stage invocations made so far, with inputs
    coach,     \* one WellnessCoachAgent.process call
    vision,    \* one VisionInterpreterAgent.process call
    drift,     \* one DriftDetectionAgent.process call
    energy,    \* one EnergyInterventionAgent._detect_stress_signals call
    guardian,  \* one GoalGuardianAgent.process call
    fdc,       \* FDCNutritionService: its cache and the lookups in progress
    overall,   \* one calculate_overall_confidence call
    nextact,   \* one NextActionAgent.process call
    strategy,  \* one AdaptiveStrategyAgent.process call
    weekly,    \* one WeeklyReflectionAgent.process call
    streak     \* one _calculate_streak call

vars ==
    <<pc, req, results, agents, calls, coach, vision, drift, energy,
      guardian, fdc, overall, nextact, strategy, weekly, streak>>

-----------------------------------------------------------------------------
(* Python dicts                                                            *)

EmptyDict == <<>>

Has(d, k) == k \in DOMAIN d

\* dict.get(k, default)
Get(d, k, default) == IF k \in DOMAIN d THEN d[k] ELSE default

\* d[k] = v
SetKey(d, k, v) == (k :> v) @@ d

\* if k not in d: d[k] = v
Backfill(d, k, v) == d @@ (k :> v)

(* Optional values: None, or a value that is present                       *)

None == [some |-> FALSE]

Some(v) == [some |-> TRUE, val |-> v]

\* None where the code expects a str
NullText == <<"None">>

IsNull(text) == text = NullText

(* Exceptions                                                              *)

Raise == [raised |-> TRUE]

Return(v) == [raised |-> FALSE, value |-> v]

(* Sequences                                                               *)

\* s[:n]
Take(s, n) == SubSeq(s, 1, IF Len(s) < n THEN Len(s) ELSE n)

Range(s) == {s[i] : i \in DOMAIN s}

\* all sequences over S of length at most n
SeqsUpTo(S, n) == UNION {[1..k -> S] : k \in 0..n}

Min(a, b) == IF a < b THEN a ELSE b

Max(a, b) == IF a > b THEN a ELSE b

-----------------------------------------------------------------------------
(* Python str operations on character sequences                            *)

UpperCase == <<"A", "B", "C", "D", "E", "F", "G", "H", "I", "J", "K", "L", "M",
               "N", "O", "P", "Q", "R", "S", "T", "U", "V", "W", "X", "Y", "Z">>

LowerCase == <<"a", "b", "c", "d", "e", "f", "g", "h", "i", "j", "k", "l", "m",
               "n", "o", "p", "q", "r", "s", "t", "u", "v", "w", "x", "y", "z">>

LowerChar(c) ==
    IF \E i \in DOMAIN UpperCase : UpperCase[i] = c
    THEN LowerCase[CHOOSE i \in DOMAIN UpperCase : UpperCase[i] = c]
    ELSE c

\* str.lower()
Lower(s) == [i \in DOMAIN s |-> LowerChar(s[i])]

\* `sub in s`
Contains(s, sub) ==
    \E i \in 0..(Len(s) - Len(sub)) :
        \A j \in 1..Len(sub) : s[i + j] = sub[j]

\* str.strip(): drop leading and trailing blanks
Strip(s) ==
    LET idx == {i \in DOMAIN s : s[i] # " "}
    IN  IF idx = {} THEN <<>>
        ELSE LET lo == CHOOSE i \in idx : \A j \in idx : i <= j
                 hi == CHOOSE i \in idx : \A j \in idx : i >= j
             IN  SubSeq(s, lo, hi)

-----------------------------------------------------------------------------
(* Remote language-model responses (BaseAgent.generate_text followed by    *)
(* BaseAgent.parse_json_response)                                          *)

ApiError == [kind |-> "api_error"]

BadJson == [kind |-> "bad_json"]

Json(d) == [kind |-> "json", json |-> d]

-----------------------------------------------------------------------------
(* WellnessCoachAgent                                                      *)

SAFETY_PHRASES_TO_AVOID ==
  << <<"t", "o", "o", " ", "m", "u", "c", "h">>,
     <<"t", "o", "o", " ", "l", "i", "t", "t", "l", "e">>,
     <<"s", "h", "o", "u", "l", "d", " ", "c", "u", "t">>,
     <<"s", "h", "o", "u", "l", "d", " ", "r", "e", "s", "t", "r", "i", "c", "t">>,
     <<"b", "a", "d", " ", "f", "o", "o", "d">>,
     <<"c", "h", "e", "a", "t", " ", "m", "e", "a", "l">>,
     <<"g", "u", "i", "l", "t", "y">>,
     <<"s", "i", "n", "f", "u", "l">>,
     <<"n", "a", "u", "g", "h", "t", "y">>,
     <<"s", "k", "i", "n", "n", "y">>,
     <<"f", "a", "t">>,
     <<"o", "v", "e", "r", "w", "e", "i", "g", "h", "t">>,
     <<"u", "n", "d", "e", "r", "w", "e", "i", "g", "h", "t">>,
     <<"d", "i", "e", "t">>,
     <<"l", "o", "s", "e", " ", "w", "e", "i", "g", "h", "t">>,
     <<"b", "u", "r", "n", " ", "o", "f", "f">>,
     <<"w", "o", "r", "k", " ", "o", "f", "f">> >>

\* the sentence that replaces a flagged message
SafeAlternative ==
    <<"Y", "o", "u", "r", " ", "m", "e", "a", "l", " ", "l", "o", "o", "k", "s",
      " ", "b", "a", "l", "a", "n", "c", "e", "d", "!", " ", "R", "e", "m", "e",
      "m", "b", "e", "r", ",", " ", "e", "v", "e", "r", "y", " ", "m", "e", "a",
      "l", " ", "i", "s", " ", "a", "n", " ", "o", "p", "p", "o", "r", "t", "u",
      "n", "i", "t", "y", " ", "t", "o", " ", "n", "o", "u", "r", "i", "s", "h",
      " ", "y", "o", "u", "r", "s", "e", "l", "f", ".", " ", "STAR">>

emoji_map == [under_fueled |-> "blue", roughly_aligned |-> "green",
              slightly_over |-> "orange"]

\* a scan that forgets to lower-case the message
FlaggedCaseSensitive(message) ==
    \E i \in DOMAIN SAFETY_PHRASES_TO_AVOID :
        Contains(message, SAFETY_PHRASES_TO_AVOID[i])

\* the `for phrase in SAFETY_PHRASES_TO_AVOID` scan of the raw message
Flagged(message) ==
    \E i \in DOMAIN SAFETY_PHRASES_TO_AVOID :
        Contains(Lower(message), Lower(SAFETY_PHRASES_TO_AVOID[i]))

\* the post-processing of the parsed model output
CoachPost(result, balance_status) ==
    LET message == Get(result, "message", <<>>)
        r1 == IF Flagged(message)
              THEN SetKey(result, "message", SafeAlternative)
              ELSE result
        r2 == Backfill(r1, "emoji_indicator",
                       Get(emoji_map, balance_status, "green"))
        r3 == Backfill(r2, "suggestions", <<>>)
        r4 == Backfill(r3, "disclaimer_shown", TRUE)
    IN  SetKey(r4, "suggestions", Take(r4["suggestions"], 2))

\* WellnessCoachAgent.process; resp is what the text model answers
\* the remote call WellnessCoachAgent.process makes once the food names are
\* collected
WellnessRemoteCalls(vision_result) ==
    LET foods == Take(Get(vision_result, "foods", <<>>), 5)
    IN  IF \E i \in DOMAIN foods : ~Has(foods[i], "name") THEN <<>>
        ELSE <<[kind |-> "text_model"]>>

WellnessProcess(personalization_result, nutrition_result, vision_result, resp) ==
    LET balance_status ==
            Get(personalization_result, "balance_status", "roughly_aligned")
        foods == Take(Get(vision_result, "foods", <<>>), 5)
    IN  IF \E i \in DOMAIN foods : ~Has(foods[i], "name") THEN Raise
        ELSE IF resp.kind # "json" THEN Raise
        ELSE Return(CoachPost(resp.json, balance_status))


-----------------------------------------------------------------------------
(* Floats as exact rationals <<numerator, denominator>>, denominator > 0   *)

RECURSIVE Gcd(_, _)
Gcd(a, b) == IF b = 0 THEN a ELSE Gcd(b, a % b)

Abs(a) == IF a < 0 THEN -a ELSE a

\* the fraction n/d in lowest terms
Frac(n, d) ==
    LET g == Gcd(Abs(n), d)
    IN  IF g = 0 THEN <<0, 1>> ELSE <<n \div g, d \div g>>

Whole(n) == <<n, 1>>

RAdd(a, b) == Frac(a[1] * b[2] + b[1] * a[2], a[2] * b[2])

RSub(a, b) == Frac(a[1] * b[2] - b[1] * a[2], a[2] * b[2])

RMul(a, b) == Frac(a[1] * b[1], a[2] * b[2])

\* a / b for b > 0
RDiv(a, b) == Frac(a[1] * b[2], a[2] * b[1])

RLt(a, b) == a[1] * b[2] < b[1] * a[2]

RLe(a, b) == a[1] * b[2] <= b[1] * a[2]

RMin(a, b) == IF RLt(b, a) THEN b ELSE a

RMax(a, b) == IF RLt(a, b) THEN b ELSE a

RECURSIVE RSum(_)
RSum(s) == IF s = <<>> THEN Whole(0) ELSE RAdd(s[1], RSum(Tail(s)))

-----------------------------------------------------------------------------
(* DriftDetectionAgent                                                     *)

\* a "time" string: "HH:MM", or text that int() rejects
Clock(h, m) == [valid |-> TRUE, h |-> h, m |-> m]

Unparsable == [valid |-> FALSE]

\* created_at.split("T")[0] of an ISO timestamp: its calendar date
DatePart(created_at) == created_at.date

\* a date string datetime.fromisoformat accepts; a created_at that is no ISO
\* timestamp has a date part numbered 0 or below
IsCalendarDate(d) == d > 0

\* a created_at string that is no ISO timestamp
Garbled == [date |-> 0, hour |-> 0]

\* _time_to_hours: "HH:MM" as hours; 12.0 when the string does not parse
time_to_hours(time_str) ==
    IF time_str.valid THEN Frac(60 * time_str.h + time_str.m, 60) ELSE Whole(12)

HasTag(m) == Has(m, "energy_tag")

HasTime(m) == Has(m, "time")

IsLowTag(m) == m["energy_tag"] = "low"

\* _analyze_patterns(meals, days); meal_frequency, which _detect_drift never
\* reads, is left out of the dict
analyze_patterns(meals, days) ==
    IF meals = <<>> THEN EmptyDict
    ELSE
    LET meal_dates == {DatePart(meals[i]["created_at"]) :
                          i \in {j \in DOMAIN meals : Has(meals[j], "created_at")}}
        actual_days_tracked ==
            IF meal_dates # {} THEN Cardinality(meal_dates) ELSE 1
        p1 == [skipped_meals_estimate |->
                   IF actual_days_tracked >= 5
                   THEN Max(0, 3 * actual_days_tracked - Len(meals))
                   ELSE 0,
               logging_frequency |->
                   Frac(Len(meals), Max(actual_days_tracked, 1)),
               actual_days_tracked |-> actual_days_tracked]
        energy_tags == SelectSeq(meals, HasTag)
        p2 == IF energy_tags # <<>>
              THEN p1 @@ [low_energy_frequency |->
                              Frac(Len(SelectSeq(energy_tags, IsLowTag)),
                                   Len(energy_tags))]
              ELSE p1
        timed == SelectSeq(meals, HasTime)
        times == [i \in DOMAIN timed |-> time_to_hours(timed[i]["time"])]
        avg_time == RDiv(RSum(times), Whole(Len(times)))
        variance ==
            RDiv(RSum([i \in DOMAIN times |->
                          RMul(RSub(times[i], avg_time),
                               RSub(times[i], avg_time))]),
                 Whole(Len(times)))
    IN  IF Len(times) > 1
        THEN p2 @@ [timing_variance |-> variance,
                    timing_stability |->
                        RSub(Whole(1), RMin(RDiv(variance, Whole(4)), Whole(1)))]
        ELSE p2

\* a history guard that is off by one day
InsufficientHistoryOffByOne(patterns) ==
    Get(patterns, "actual_days_tracked", 0) < 4

\* `if actual_days < 5` in _detect_drift
InsufficientHistory(patterns) ==
    Get(patterns, "actual_days_tracked", 0) < 5

\* a threshold test that also fires at exactly 1.5 meals a day
LoggingDeclinesAtThreshold(log_freq) == RLe(log_freq, Frac(3, 2))

\* `if log_freq < 1.5`
LoggingDeclines(log_freq) == RLt(log_freq, Frac(3, 2))

\* a skipping test that needs more than eight skipped meals
SkipsMealsAboveEight(skipped) == skipped > 8

\* `if skipped > 3`
SkipsMeals(skipped) == skipped > 3

\* the drift_signals list of _detect_drift, in the order it is appended to
drift_signals(patterns) ==
    LET skipped == Get(patterns, "skipped_meals_estimate", 0)
        log_freq == Get(patterns, "logging_frequency", Whole(0))
        low_energy_freq == Get(patterns, "low_energy_frequency", Whole(0))
        stability == Get(patterns, "timing_stability", Whole(1))
    IN  (IF SkipsMeals(skipped)
         THEN <<[type |-> "meal_skipping",
                 severity |-> RMin(Frac(skipped, 7), Whole(1))]>>
         ELSE <<>>) \o
        (IF LoggingDeclines(log_freq)
         THEN <<[type |-> "logging_decline",
                 severity |-> RMax(Whole(0), RSub(Whole(1), log_freq))]>>
         ELSE <<>>) \o
        (IF RLt(Frac(2, 5), low_energy_freq)
         THEN <<[type |-> "energy_irregularity",
                 severity |-> RMin(RDiv(RSub(low_energy_freq, Frac(3, 10)),
                                        Frac(2, 5)), Whole(1))]>>
         ELSE <<>>) \o
        (IF RLt(stability, Frac(3, 5))
         THEN <<[type |-> "timing_instability",
                 severity |-> RSub(Whole(1), stability)]>>
         ELSE <<>>)

\* a selection that keeps the last of several equally severe signals
LastMostSevere(signals) ==
    signals[CHOOSE i \in DOMAIN signals :
                /\ \A j \in DOMAIN signals :
                       RLe(signals[j].severity, signals[i].severity)
                /\ \A j \in DOMAIN signals :
                       (j > i) => RLt(signals[j].severity, signals[i].severity)]

\* max(drift_signals, key=severity): the first signal of maximum severity
most_severe(signals) ==
    signals[CHOOSE i \in DOMAIN signals :
                /\ \A j \in DOMAIN signals :
                       RLe(signals[j].severity, signals[i].severity)
                /\ \A j \in DOMAIN signals :
                       (j < i) => RLt(signals[j].severity, signals[i].severity)]

\* the drift_signals list as _detect_drift leaves it: it starts empty and the
\* early return for a short history appends nothing
signals_built(patterns) ==
    IF InsufficientHistory(patterns) THEN <<>> ELSE drift_signals(patterns)

\* _detect_drift(patterns)
detect_drift(patterns) ==
    IF InsufficientHistory(patterns)
    THEN [detected |-> FALSE, reason |-> "Insufficient tracking history"]
    ELSE IF drift_signals(patterns) = <<>> THEN [detected |-> FALSE]
    ELSE LET s == most_severe(drift_signals(patterns))
         IN  [detected |-> TRUE, type |-> s.type, severity |-> s.severity,
              confidence |-> RMin(Frac(95, 100),
                                  RAdd(Frac(6, 10),
                                       RMul(s.severity, Frac(3, 10)))),
              days_observed |-> patterns["actual_days_tracked"]]

\* DriftDetectionAgent.process(user_data)
DriftProcess(user_data) ==
    LET meals == Get(user_data, "meals", <<>>)
        days_tracked == Get(user_data, "days_tracked", 7)
        patterns == analyze_patterns(meals, days_tracked)
        d == detect_drift(patterns)
    IN  IF Len(meals) < 5
        THEN [drift_detected |-> FALSE,
              reason |-> "Insufficient data (< 5 meals)",
              confidence |-> Whole(0)]
        ELSE [drift_detected |-> d.detected,
              drift_type |-> Get(d, "type", "none"),
              severity |-> Get(d, "severity", Whole(0)),
              days_observed |-> Get(d, "days_observed", 0),
              confidence |-> Get(d, "confidence", Whole(0)),
              intervention_offered |-> Get(d, "detected", FALSE),
              patterns_found |-> patterns,
              data_points |-> Len(meals),
              period_days |-> days_tracked]

-----------------------------------------------------------------------------
(* EnergyInterventionAgent                                                 *)

HasHour(m) == Get(m, "time", Clock(12, 0)).valid

\* _calculate_timing_variance without its final square root: the variance of
\* the meal hours, a missing "time" counting as 12:00 and an unparsable one
\* being skipped (the caller's `std dev > 3.5` is `variance > 12.25`)
calculate_timing_variance(meals) ==
    LET timed == SelectSeq(meals, HasHour)
        times == [i \in DOMAIN timed |->
                     Whole(Get(timed[i], "time", Clock(12, 0)).h)]
        mean == RDiv(RSum(times), Whole(Len(times)))
    IN  IF Len(meals) < 2 \/ Len(times) < 2 THEN Whole(0)
        ELSE RDiv(RSum([i \in DOMAIN times |->
                           RMul(RSub(times[i], mean), RSub(times[i], mean))]),
                  Whole(Len(times)))

\* _is_late_meal(m.get("time", ""))
is_late_meal(m) ==
    Has(m, "time") /\ m["time"].valid /\ m["time"].h >= 20

IsLight(m) == Get(m, "calories_estimate", 500) < 400

IsHeavy(m) == Get(m, "calories_estimate", 300) > 600

IsLow(tag) == tag = "low"

\* a stress level that is not capped
Uncapped(signal_strength) == signal_strength

\* signal_strength = min(signal_strength, 1.0)
CapStressLevel(signal_strength) == RMin(signal_strength, Whole(1))

\* _detect_stress_signals(user_data)
detect_stress_signals(user_data) ==
    LET energy_tags == Get(user_data, "energy_tags", <<>>)
        recent_meals == Get(user_data, "recent_meals", <<>>)
        logging_gaps == Get(user_data, "logging_gaps", 0)
        s1 == energy_tags # <<>> /\
              RLt(Frac(1, 2), Frac(Len(SelectSeq(energy_tags, IsLow)),
                                   Max(Len(energy_tags), 1)))
        s2 == Len(recent_meals) > 3 /\
              RLt(Frac(49, 4), calculate_timing_variance(recent_meals))
        s3 == RLt(RMul(Whole(Len(recent_meals)), Frac(4, 10)),
                  Whole(Len(SelectSeq(recent_meals, IsLight))))
        s4 == SelectSeq(SelectSeq(recent_meals, is_late_meal), IsHeavy) # <<>>
        s5 == logging_gaps > 2
        indicators ==
            (IF s1 THEN <<"low_energy_tags">> ELSE <<>>) \o
            (IF s2 THEN <<"timing_irregularity">> ELSE <<>>) \o
            (IF s3 THEN <<"light_meals">> ELSE <<>>) \o
            (IF s4 THEN <<"heavy_late_meals">> ELSE <<>>) \o
            (IF s5 THEN <<"logging_gap">> ELSE <<>>)
        signal_strength ==
            RAdd(RAdd(RAdd(RAdd(RAdd(Whole(0),
                IF s1 THEN Frac(30, 100) ELSE Whole(0)),
                IF s2 THEN Frac(25, 100) ELSE Whole(0)),
                IF s3 THEN Frac(20, 100) ELSE Whole(0)),
                IF s4 THEN Frac(15, 100) ELSE Whole(0)),
                IF s5 THEN Frac(20, 100) ELSE Whole(0))
    IN  [detected |-> Len(indicators) > 0,
         level |-> CapStressLevel(signal_strength),
         indicators |-> indicators,
         indicator_count |-> Len(indicators)]

\* EnergyInterventionAgent.process(context): once a signal is detected the
\* method reads `user_data`, a name that is not bound in it, and so raises
\* _generate_intervention; the message is kept as the parts it embeds: the
\* indicators _format_indicators lists, the action and the closing disclaimer
generate_intervention(stress_level, indicators) ==
    LET tier == IF RLt(stress_level, Frac(3, 10)) THEN "gentle_reassurance"
                ELSE IF RLt(stress_level, Frac(6, 10)) THEN "mild_support"
                ELSE "significant_support"
        action ==
            IF tier = "gentle_reassurance"
            THEN "Take a breath. You're doing your best."
            ELSE IF tier = "mild_support"
            THEN "Want to simplify your approach for a few days?"
            ELSE "You seem overwhelmed. Want to reset tomorrow with something simpler?"
    IN  [type |-> tier,
         action |-> action,
         message |-> [indicators |-> Take(indicators, 3),
                      action |-> action,
                      disclaimer |-> "not medical advice"]]

\* EnergyInterventionAgent.process: once a signal is detected, the argument
\* user_data.get("user_goal", "") of the _generate_intervention call names a
\* variable process does not have, and evaluating it raises NameError
EnergyProcess(context) ==
    IF ~detect_stress_signals(context).detected
    THEN Return([stress_detected |-> FALSE, stress_level |-> Whole(0),
                 message |-> "You're doing well. Keep it up!"])
    ELSE Raise

-----------------------------------------------------------------------------
(* utils/confidence.py                                                     *)

IsHigh(c) == c = "high"

\* "high" only for a strict majority of "high"
OverallByStrictMajority(confidences) ==
    IF confidences = <<>> THEN "medium"
    ELSE IF \E i \in DOMAIN confidences : confidences[i] = "low" THEN "low"
    ELSE IF 2 * Len(SelectSeq(confidences, IsHigh)) > Len(confidences)
         THEN "high"
         ELSE "medium"

calculate_overall_confidence(confidences) ==
    IF confidences = <<>> THEN "medium"
    ELSE IF \E i \in DOMAIN confidences : confidences[i] = "low" THEN "low"
    ELSE IF 2 * Len(SelectSeq(confidences, IsHigh)) >= Len(confidences)
         THEN "high"
         ELSE "medium"

-----------------------------------------------------------------------------
(* NutritionReasonerAgent and PersonalizationAgent                         *)

\* the result of the empty-food short-circuit
EmptyNutrition ==
    [total_calories |-> [min |-> 0, max |-> 0],
     macros |-> [protein |-> "0%", carbs |-> "0%", fat |-> "0%"],
     uncertainty |-> "high",
     per_food_breakdown |-> <<>>]

\* food['name'], food['portion'] and food['confidence'] are all subscripted
Describable(food) ==
    Has(food, "name") /\ Has(food, "portion") /\ Has(food, "confidence")

\* a guard that never takes the early return
FoodsNeverEmpty(foods) == FALSE

\* `not foods`
NoFoods(foods) == foods = <<>>

\* the lookups made by the loop over the foods: food['name'] is looked up
\* first, then the description subscripts portion and confidence
RECURSIVE NutritionLookups(_)
NutritionLookups(foods) ==
    IF foods = <<>> THEN <<>>
    ELSE LET food == Head(foods)
         IN  IF ~Has(food, "name") THEN <<>>
             ELSE <<[kind |-> "lookup", food_name |-> food["name"]]>>
                  \o (IF Describable(food) THEN NutritionLookups(Tail(foods))
                      ELSE <<>>)

\* the remote calls NutritionReasonerAgent.process makes, in order
NutritionRemoteCalls(vision_result) ==
    LET foods == Get(vision_result, "foods", <<>>)
    IN  IF NoFoods(foods) THEN <<>>
        ELSE NutritionLookups(foods)
             \o (IF \A i \in DOMAIN foods : Describable(foods[i])
                 THEN <<[kind |-> "text_model"]>> ELSE <<>>)

\* NutritionReasonerAgent.process(vision_result); resp is the text model's
\* answer; the nutrition lookups only add hints to the prompt
NutritionProcess(vision_result, resp) ==
    LET foods == Get(vision_result, "foods", <<>>)
    IN  IF NoFoods(foods) THEN Return(EmptyNutrition)
        ELSE IF \E i \in DOMAIN foods : ~Describable(foods[i]) THEN Raise
        ELSE IF resp.kind # "json" THEN Raise
        ELSE LET r1 == Backfill(resp.json, "total_calories",
                                [min |-> 0, max |-> 0])
                 r2 == Backfill(r1, "macros",
                                [protein |-> "N/A", carbs |-> "N/A",
                                 fat |-> "N/A"])
             IN  Return(Backfill(r2, "uncertainty", "medium"))

\* the remote call PersonalizationAgent.process makes
PersonalizationRemoteCalls == <<[kind |-> "text_model"]>>

\* PersonalizationAgent.process; the daily totals and the profile only shape
\* the prompt
PersonalizationProcess(nutrition_result, user_profile, daily_meals, resp) ==
    IF resp.kind # "json" THEN Raise
    ELSE Return(Backfill(Backfill(resp.json, "balance_status",
                                  "roughly_aligned"),
                         "daily_context", "Unable to determine context."))

-----------------------------------------------------------------------------
(* GoalGuardianAgent                                                       *)

\* any(w in text for w in words)
AnyIn(words, text) == \E i \in DOMAIN words : Contains(text, words[i])

\* str.replace(old, new) for a non-empty old
RECURSIVE Replace(_, _, _)
Replace(s, old, new) ==
    IF Len(s) < Len(old) THEN s
    ELSE IF SubSeq(s, 1, Len(old)) = old
         THEN new \o Replace(SubSeq(s, Len(old) + 1, Len(s)), old, new)
         ELSE <<s[1]>> \o Replace(Tail(s), old, new)

energy_words ==
    <<<<"e", "n", "e", "r", "g", "y">>,
      <<"f", "o", "c", "u", "s">>,
      <<"a", "l", "e", "r", "t">>,
      <<"a", "w", "a", "k", "e">>,
      <<"v", "i", "g", "o", "r">>,
      <<"v", "i", "t", "a", "l", "i", "t", "y">>>>

consistency_words ==
    <<<<"c", "o", "n", "s", "i", "s", "t", "e", "n", "t">>,
      <<"h", "a", "b", "i", "t">>,
      <<"r", "o", "u", "t", "i", "n", "e">>,
      <<"r", "e", "g", "u", "l", "a", "r">>,
      <<"d", "a", "i", "l", "y">>>>

intuition_words ==
    <<<<"i", "n", "t", "u", "i", "t", "i", "v", "e">>,
      <<"f", "e", "e", "l">>,
      <<"l", "i", "s", "t", "e", "n">>,
      <<"t", "r", "u", "s", "t">>,
      <<"s", "i", "g", "n", "a", "l">>>>

balance_words ==
    <<<<"b", "a", "l", "a", "n", "c", "e">>,
      <<"m", "o", "d", "e", "r", "a", "t", "e">>,
      <<"s", "u", "s", "t", "a", "i", "n", "a", "b", "l", "e">>,
      <<"r", "e", "a", "l", "i", "s", "t", "i", "c">>>>

wellness_words ==
    <<<<"w", "e", "l", "l">>,
      <<"h", "e", "a", "l", "t", "h">>,
      <<"s", "u", "p", "p", "o", "r", "t">>,
      <<"s", "u", "s", "t", "a", "i", "n">>,
      <<"t", "h", "r", "i", "v", "e">>>>

\* ["wellness", "support"]
DefaultKeywords ==
    <<<<"w", "e", "l", "l", "n", "e", "s", "s">>,
      <<"s", "u", "p", "p", "o", "r", "t">>>>

\* _extract_goal_keywords(goal)
extract_goal_keywords(goal) ==
    LET goal_lower == Lower(goal)
        Pick(words) == IF AnyIn(words, goal_lower) THEN words ELSE <<>>
        keywords == Pick(energy_words) \o Pick(consistency_words)
                    \o Pick(intuition_words) \o Pick(balance_words)
                    \o Pick(wellness_words)
    IN  IF keywords = <<>> THEN DefaultKeywords ELSE keywords

extremes ==
    <<<<"m", "u", "s", "t">>,
      <<"a", "l", "w", "a", "y", "s">>,
      <<"n", "e", "v", "e", "r">>,
      <<"e", "x", "t", "r", "e", "m", "e">>,
      <<"s", "t", "r", "i", "c", "t">>,
      <<"d", "i", "s", "c", "i", "p", "l", "i", "n", "e">>>>

shame_words ==
    <<<<"f", "a", "i", "l", "u", "r", "e">>,
      <<"b", "a", "d">>,
      <<"u", "n", "d", "i", "s", "c", "i", "p", "l", "i", "n", "e", "d">>,
      <<"w", "e", "a", "k">>,
      <<"l", "a", "z", "y">>>>

W_intuitive == <<"i", "n", "t", "u", "i", "t", "i", "v", "e">>

W_calories == <<"c", "a", "l", "o", "r", "i", "e", "s">>

W_count == <<"c", "o", "u", "n", "t">>

W_sustainable == <<"s", "u", "s", "t", "a", "i", "n", "a", "b", "l", "e">>

W_realistic == <<"r", "e", "a", "l", "i", "s", "t", "i", "c">>

W_energy == <<"e", "n", "e", "r", "g", "y">>

W_restrict == <<"r", "e", "s", "t", "r", "i", "c", "t">>

W_fewer == <<"f", "e", "w", "e", "r">>

W_cut_back == <<"c", "u", "t", " ", "b", "a", "c", "k">>

W_consistent == <<"c", "o", "n", "s", "i", "s", "t", "e", "n", "t">>

W_perfect == <<"p", "e", "r", "f", "e", "c", "t">>

W_habit == <<"h", "a", "b", "i", "t">>

W_balance == <<"b", "a", "l", "a", "n", "c", "e">>

W_consider == <<"c", "o", "n", "s", "i", "d", "e", "r">>

\* _check_misalignment(goal, recommendation)
check_misalignment(goal, recommendation) ==
    LET goal_lower == Lower(goal)
        rec_lower == Lower(recommendation)
    IN  (IF /\ Contains(goal_lower, W_intuitive)
            /\ Contains(rec_lower, W_calories)
            /\ Contains(rec_lower, W_count)
         THEN <<"Rigid calorie counting contradicts intuitive eating">>
         ELSE <<>>)
        \o (IF /\ \/ Contains(goal_lower, W_sustainable)
                  \/ Contains(goal_lower, W_realistic)
               /\ AnyIn(extremes, rec_lower)
            THEN <<"Extreme advice contradicts sustainable approach">>
            ELSE <<>>)
        \o (IF /\ Contains(goal_lower, W_energy)
               /\ \/ Contains(rec_lower, W_restrict)
                  \/ Contains(rec_lower, W_fewer)
                  \/ Contains(rec_lower, W_cut_back)
            THEN <<"Restriction contradicts energy goals">>
            ELSE <<>>)
        \o (IF AnyIn(shame_words, rec_lower)
            THEN <<"Shame-based language contradicts wellness">>
            ELSE <<>>)

\* _generate_reasoning(goal, aligned_keywords, misaligned): the parts of the
\* text it formats
generate_reasoning(goal, aligned_keywords, misaligned) ==
    [goal |-> goal,
     aligned |-> Range(aligned_keywords),
     concerns |-> misaligned,
     neutral |-> aligned_keywords = <<>> /\ misaligned = <<>>]

\* a score returned as computed, without min(1.0, max(0.0, score))
Unclamped(score) == score

\* min(1.0, max(0.0, score))
ClampScore(score) == RMin(Whole(1), RMax(Whole(0), score))

\* _assess_alignment(goal, recommendation, rec_type)
assess_alignment(goal, recommendation, rec_type) ==
    LET goal_keywords == extract_goal_keywords(goal)
        aligned_keywords ==
            SelectSeq(goal_keywords, LAMBDA kw : Contains(recommendation, kw))
        misaligned == check_misalignment(goal, recommendation)
        base == IF goal_keywords = <<>> THEN Frac(1, 2)
                ELSE Frac(Len(aligned_keywords), Len(goal_keywords))
        penalized == IF misaligned # <<>> THEN RMul(base, Frac(7, 10))
                     ELSE base
        score == IF rec_type = "action" /\ RLt(penalized, Frac(6, 10))
                 THEN RSub(penalized, Frac(1, 10))
                 ELSE penalized
    IN  [score |-> ClampScore(score),
         aligned_keywords |-> aligned_keywords,
         misaligned |-> misaligned,
         reasoning |-> generate_reasoning(goal, aligned_keywords, misaligned)]

\* " while maintaining your energy levels."
MaintainingEnergy ==
    <<" ", "w", "h", "i", "l", "e", " ", "m", "a", "i", "n", "t", "a", "i",
      "n", "i", "n", "g", " ", "y", "o", "u", "r", " ", "e", "n", "e", "r",
      "g", "y", " ", "l", "e", "v", "e", "l", "s", ".">>

\* "Focus on how you feel after this meal rather than the calorie count."
FocusOnFeel ==
    <<"F", "o", "c", "u", "s", " ", "o", "n", " ", "h", "o", "w", " ", "y",
      "o", "u", " ", "f", "e", "e", "l", " ", "a", "f", "t", "e", "r", " ",
      "t", "h", "i", "s", " ", "m", "e", "a", "l", " ", "r", "a", "t", "h",
      "e", "r", " ", "t", "h", "a", "n", " ", "t", "h", "e", " ", "c", "a",
      "l", "o", "r", "i", "e", " ", "c", "o", "u", "n", "t", ".">>

\* "Here's how this supports your goal ("
SupportsPrefix ==
    <<"H", "e", "r", "e", "'", "s", " ", "h", "o", "w", " ", "t", "h", "i",
      "s", " ", "s", "u", "p", "p", "o", "r", "t", "s", " ", "y", "o", "u",
      "r", " ", "g", "o", "a", "l", " ", "(">>

\* "): "
SupportsInfix ==
    <<")", ":", " ">>

\* _modify_recommendation(goal, recommendation, alignment)
modify_recommendation(goal, recommendation, alignment) ==
    LET goal_lower == Lower(goal)
    IN  IF Contains(goal_lower, W_energy) /\ Contains(recommendation, W_restrict)
        THEN Replace(recommendation, W_restrict, W_consider)
             \o MaintainingEnergy
        ELSE IF /\ Contains(goal_lower, W_intuitive)
                /\ Contains(recommendation, W_calories)
             THEN FocusOnFeel
             ELSE IF /\ Contains(goal_lower, W_consistent)
                     /\ Contains(recommendation, W_perfect)
                  THEN Replace(recommendation, W_perfect, W_consistent)
                  ELSE SupportsPrefix \o goal \o SupportsInfix
                       \o recommendation

\* _calculate_goal_progress(goal, user_metrics)
calculate_goal_progress(goal, user_metrics) ==
    LET goal_lower == Lower(goal)
        progress ==
            IF Contains(goal_lower, W_energy)
            THEN Get(user_metrics, "avg_energy_tag", Frac(1, 2))
            ELSE IF \/ Contains(goal_lower, W_consistent)
                    \/ Contains(goal_lower, W_habit)
            THEN RMin(Frac(Get(user_metrics, "days_logged", 0), 7), Whole(1))
            ELSE IF Contains(goal_lower, W_balance)
            THEN Get(user_metrics, "meal_timing_consistency", Frac(1, 2))
            ELSE IF Contains(goal_lower, W_intuitive)
            THEN RMin(RAdd(Frac(1, 2),
                           Get(user_metrics, "intuitive_eating_comfort",
                               Frac(3, 10))),
                      Whole(1))
            ELSE Frac(1, 2)
    IN  RMin(Whole(1), RMax(Whole(0), progress))

\* _generate_affirmation(goal, progress): the opening and the closing sentence
generate_affirmation(goal, progress) ==
    LET goal_lower == Lower(goal)
        affirmation_base ==
            IF RLt(Frac(8, 10), progress) THEN "You're crushing your goal!"
            ELSE IF RLt(Frac(1, 2), progress)
                 THEN "You're making real progress on your goal."
                 ELSE "You're building toward your goal."
    IN  <<affirmation_base,
          IF Contains(goal_lower, W_energy)
          THEN "Keep noticing what fuels your energy."
          ELSE IF Contains(goal_lower, W_consistent)
          THEN "Consistency builds momentum. Keep going."
          ELSE IF Contains(goal_lower, W_balance)
          THEN "You're finding what works for you."
          ELSE IF Contains(goal_lower, W_intuitive)
          THEN "Trust yourself. You've got this."
          ELSE "Your wellness matters.">>

\* the answer given when no goal is set
NoGoalResult ==
    [aligned_with_goal |-> TRUE,
     goal_progress |-> Whole(0),
     message |-> "No goal set yet. Set a goal to get personalized guidance."]

\* `rec_type in ["action", "insight"]`
Reviewable(rec_type) == rec_type \in {"action", "insight"}

\* aligned from 0.7 on
AlignedAtThreshold(score) == RLe(Frac(7, 10), score)

\* alignment["score"] > 0.7
AlignedWithGoal(score) == RLt(Frac(7, 10), score)

\* GoalGuardianAgent.process(context); context.get("user_goal", "").lower()
\* raises AttributeError when the key holds None
GoalGuardianProcess(context) ==
    LET goal == Lower(Get(context, "user_goal", <<>>))
        recommendation == Lower(Get(context, "recommendation", <<>>))
        rec_type == Get(context, "recommendation_type", "")
        user_metrics == Get(context, "user_metrics", EmptyDict)
        alignment == assess_alignment(goal, recommendation, rec_type)
        needs_modification ==
            RLt(alignment.score, Frac(7, 10)) /\ Reviewable(rec_type)
        progress == calculate_goal_progress(goal, user_metrics)
        aligned_action_count == Get(context, "aligned_action_count", 0)
        total_action_count == Get(context, "total_action_count", 1)
    IN  IF IsNull(Get(context, "user_goal", <<>>)) THEN Raise
        ELSE IF goal = <<>> THEN Return(NoGoalResult)
        ELSE Return(
            [aligned_with_goal |-> AlignedWithGoal(alignment.score),
             alignment_score |-> alignment.score,
             goal |-> goal,
             assessment |-> alignment.reasoning,
             aligned_keywords |-> alignment.aligned_keywords,
             misaligned_elements |-> alignment.misaligned,
             should_modify |-> needs_modification,
             modification |->
                 IF needs_modification
                 THEN Some(modify_recommendation(goal, recommendation,
                                                 alignment))
                 ELSE None,
             goal_progress |-> progress,
             affirm_goal |-> generate_affirmation(goal, progress),
             actions_aligned_to_goal |-> aligned_action_count,
             total_actions |-> total_action_count,
             alignment_percentage |->
                 (aligned_action_count * 100) \div Max(total_action_count, 1),
             opik_metadata |->
                 [agent |-> "GoalGuardianAgent",
                  decision_type |-> "goal_alignment",
                  goal |-> Replace(goal, <<" ">>, <<"_">>),
                  alignment_score |-> alignment.score,
                  goal_progress |-> progress,
                  modification_needed |-> needs_modification]])

-----------------------------------------------------------------------------
(* NextActionAgent                                                         *)

W_low == <<"l", "o", "w">>

W_medium == <<"m", "e", "d", "i", "u", "m">>

W_focus == <<"f", "o", "c", "u", "s">>

W_mood == <<"m", "o", "o", "d">>

W_feel == <<"f", "e", "e", "l">>

W_weight == <<"w", "e", "i", "g", "h", "t">>

W_muscle == <<"m", "u", "s", "c", "l", "e">>

W_lose == <<"l", "o", "s", "e">>

W_gain == <<"g", "a", "i", "n">>

W_log == <<"l", "o", "g">>

W_reset == <<"r", "e", "s", "e", "t">>

\* the word lists of _determine_goal_focus
FocusConsistency == <<W_energy, W_focus, W_mood, W_consistent>>

FocusIntuition == <<W_balance, W_intuitive, W_feel>>

FocusComposition == <<W_weight, W_muscle, W_lose, W_gain>>

\* _determine_goal_focus
determine_goal_focus(goal) ==
    LET goal_lower == IF IsNull(goal) THEN <<>> ELSE Lower(goal)
    IN  IF AnyIn(FocusConsistency, goal_lower) THEN "consistency"
        ELSE IF AnyIn(FocusIntuition, goal_lower) THEN "intuition"
        ELSE IF AnyIn(FocusComposition, goal_lower) THEN "composition"
        ELSE "consistency"

\* _hours_since_last_meal, current_hour being datetime.now().hour: 12.0 for
\* no meals, 4.0 when the last meal has no "time" or one int() rejects
hours_since_last_meal(recent_meals, current_hour) ==
    IF recent_meals = <<>> THEN 12
    ELSE LET last == recent_meals[Len(recent_meals)]
         IN  IF ~Has(last, "time") THEN 4
             ELSE IF ~last["time"].valid THEN 4
             ELSE LET hours_ago == (current_hour - last["time"].h) % 24
                  IN  IF hours_ago > 0 THEN hours_ago ELSE 24

\* NextActionAgent._detect_stress_signals
next_action_stress_signals(recent_drift, recent_meals) ==
    LET type == Get(recent_drift, "type", "None")
        logging ==
            IF Get(recent_drift, "detected", FALSE) = TRUE /\ type = "logging_decline"
            THEN <<"You've been logging less frequently">> ELSE <<>>
        late ==
            IF recent_meals = <<>> THEN <<>>
            ELSE LET last_meal == recent_meals[Len(recent_meals)]
                 IN  IF /\ Has(last_meal, "time")
                        /\ last_meal["time"].valid
                        /\ last_meal["time"].h > 21
                     THEN <<"Heavy meal logged late at night">> ELSE <<>>
        erratic ==
            IF type = "energy_irregularity"
            THEN <<"Your energy has been erratic recently">> ELSE <<>>
    IN  Take(logging \o late \o erratic, 2)

\* under-fueled from five hours on
UnderfueledFromFive(user_energy, last_meal_hours_ago) ==
    last_meal_hours_ago >= 5 \/ (user_energy = W_low /\ last_meal_hours_ago > 3)

\* is_underfueled
is_underfueled(user_energy, last_meal_hours_ago) ==
    last_meal_hours_ago > 5 \/ (user_energy = W_low /\ last_meal_hours_ago > 3)

\* "Have a balanced meal or substantial snack in the next 30 minutes"
A_meal_soon ==
    <<"H", "a", "v", "e", " ", "a", " ", "b", "a", "l", "a", "n", "c", "e",
      "d", " ", "m", "e", "a", "l", " ", "o", "r", " ", "s", "u", "b", "s",
      "t", "a", "n", "t", "i", "a", "l", " ", "s", "n", "a", "c", "k", " ",
      "i", "n", " ", "t", "h", "e", " ", "n", "e", "x", "t", " ", "3", "0",
      " ", "m", "i", "n", "u", "t", "e", "s">>

\* "Take a break from logging today. Focus on intuitive eating and reset
\* tomorrow"
A_break ==
    <<"T", "a", "k", "e", " ", "a", " ", "b", "r", "e", "a", "k", " ", "f",
      "r", "o", "m", " ", "l", "o", "g", "g", "i", "n", "g", " ", "t", "o",
      "d", "a", "y", ".", " ", "F", "o", "c", "u", "s", " ", "o", "n", " ",
      "i", "n", "t", "u", "i", "t", "i", "v", "e", " ", "e", "a", "t", "i",
      "n", "g", " ", "a", "n", "d", " ", "r", "e", "s", "e", "t", " ", "t",
      "o", "m", "o", "r", "r", "o", "w">>

\* "Log this meal and note how you feel afterward"
A_log ==
    <<"L", "o", "g", " ", "t", "h", "i", "s", " ", "m", "e", "a", "l", " ",
      "a", "n", "d", " ", "n", "o", "t", "e", " ", "h", "o", "w", " ", "y",
      "o", "u", " ", "f", "e", "e", "l", " ", "a", "f", "t", "e", "r", "w",
      "a", "r", "d">>

\* "Continue with your meal. You're on track"
A_continue ==
    <<"C", "o", "n", "t", "i", "n", "u", "e", " ", "w", "i", "t", "h", " ",
      "y", "o", "u", "r", " ", "m", "e", "a", "l", ".", " ", "Y", "o", "u",
      "'", "r", "e", " ", "o", "n", " ", "t", "r", "a", "c", "k">>

UnderfueledDecision(user_energy, last_meal_hours_ago) ==
    [action |-> A_meal_soon,
     type |-> "nutritional_intervention",
     reasoning |-> <<[text |-> "Last meal was {:.1f} hours ago",
                      value |-> last_meal_hours_ago],
                     [text |-> "Energy level is {}", value |-> user_energy],
                     [text |-> "This pattern often leads to energy crashes"]>>,
     confidence |-> Frac(85, 100),
     urgency |-> "high",
     alternatives |-> <<"Start with hydration and protein snack",
                        "Have a light meal and reassess in 30 min">>,
     path |-> <<"Under-fueled detected">>]

StressDecision(stress_signals) ==
    [action |-> A_break,
     type |-> "stress_relief",
     reasoning |-> <<"Stress signals detected:">> \o stress_signals,
     confidence |-> Frac(78, 100),
     urgency |-> "moderate",
     alternatives |-> <<"Pause logging, but continue tracking energy",
                        "Take a walk, then reassess your day">>,
     path |-> <<"Stress signals detected">>]

ConsistencyDecision ==
    [action |-> A_log,
     type |-> "consistency_maintenance",
     reasoning |-> <<"Your goal emphasizes consistency",
                     "Regular logging builds the habit",
                     "Note energy to find patterns">>,
     confidence |-> Frac(82, 100),
     urgency |-> "moderate",
     alternatives |-> <<"Simple logging: just food names",
                        "Detailed logging: include energy + mood">>,
     path |-> <<"Goal prioritizes consistency">>]

NormalizationDecision ==
    [action |-> A_continue,
     type |-> "normalization",
     reasoning |-> <<"Energy level is stable",
                     "Recent meal patterns are healthy",
                     "No stress signals detected">>,
     confidence |-> Frac(88, 100),
     urgency |-> "low",
     alternatives |-> <<"Log this meal when done",
                        "No action needed - enjoy your meal">>,
     path |-> <<"No intervention needed">>]

\* _make_decision
make_decision(user_energy, recent_drift, goal, recent_meals, current_hour) ==
    LET last_meal_hours_ago == hours_since_last_meal(recent_meals, current_hour)
        stress_signals == next_action_stress_signals(recent_drift, recent_meals)
    IN  IF is_underfueled(user_energy, last_meal_hours_ago)
        THEN UnderfueledDecision(user_energy, last_meal_hours_ago)
        ELSE IF stress_signals # <<>> THEN StressDecision(stress_signals)
        ELSE IF determine_goal_focus(goal) = "consistency"
             THEN ConsistencyDecision
             ELSE NormalizationDecision

\* _calculate_goal_alignment
calculate_goal_alignment(decision, goal) ==
    LET action == Lower(decision.action)
        goal_lower == Lower(goal)
    IN  IF goal = <<>> \/ IsNull(goal) THEN Frac(7, 10)
        ELSE IF Contains(goal_lower, W_energy) /\ Contains(action, W_energy)
             THEN Frac(95, 100)
        ELSE IF Contains(goal_lower, W_consistent) /\ Contains(action, W_log)
             THEN Frac(90, 100)
        ELSE IF Contains(goal_lower, W_intuitive) /\ Contains(action, W_reset)
             THEN Frac(92, 100)
        ELSE Frac(80, 100)

\* NextActionAgent.process; current_hour is the hour datetime.now() reads
NextActionProcess(context, current_hour) ==
    LET user_energy == Lower(Get(context, "user_energy", W_medium))
        goal == Get(context, "user_goal", <<>>)
        decision ==
            make_decision(user_energy, Get(context, "recent_drift", EmptyDict),
                          goal, Get(context, "recent_meals", <<>>),
                          current_hour)
    IN  Return([next_action |-> decision.action,
                action_type |-> decision.type,
                reasoning |-> decision.reasoning,
                confidence |-> decision.confidence,
                urgency |-> decision.urgency,
                alternative_actions |-> decision.alternatives,
                alignment_with_goal |->
                    calculate_goal_alignment(decision, goal),
                decision_tree_path |-> decision.path,
                opik_metadata |->
                    [agent |-> "NextActionAgent",
                     decision_type |-> "autonomous_action",
                     energy_level |-> user_energy,
                     goal |-> goal,
                     alternatives_offered |-> Len(decision.alternatives)]])

-----------------------------------------------------------------------------
(* AdaptiveStrategyAgent                                                   *)

W_acceptance == <<"a", "c", "c", "e", "p", "t", "a", "n", "c", "e">>

W_calorie == <<"c", "a", "l", "o", "r", "i", "e">>

W_disengagement == <<"d", "i", "s", "e", "n", "g", "a", "g", "e", "m", "e", "n", "t">>

W_logging == <<"l", "o", "g", "g", "i", "n", "g">>

W_interventions == <<"i", "n", "t", "e", "r", "v", "e", "n", "t", "i", "o", "n", "s">>

W_consistency == <<"c", "o", "n", "s", "i", "s", "t", "e", "n", "c", "y">>

\* "calorie_focused"
S_calorie_focused ==
    <<"c", "a", "l", "o", "r", "i", "e", "_", "f", "o", "c", "u", "s", "e",
      "d">>

\* "Low user acceptance of suggestions"
T_acceptance ==
    <<"L", "o", "w", " ", "u", "s", "e", "r", " ", "a", "c", "c", "e", "p",
      "t", "a", "n", "c", "e", " ", "o", "f", " ", "s", "u", "g", "g", "e",
      "s", "t", "i", "o", "n", "s">>

\* "Disengagement trend detected"
T_disengagement ==
    <<"D", "i", "s", "e", "n", "g", "a", "g", "e", "m", "e", "n", "t", " ",
      "t", "r", "e", "n", "d", " ", "d", "e", "t", "e", "c", "t", "e", "d">>

\* "Logging burden causing disengagement"
T_logging ==
    <<"L", "o", "g", "g", "i", "n", "g", " ", "b", "u", "r", "d", "e", "n",
      " ", "c", "a", "u", "s", "i", "n", "g", " ", "d", "i", "s", "e", "n",
      "g", "a", "g", "e", "m", "e", "n", "t">>

\* "Interventions not working for this user"
T_interventions ==
    <<"I", "n", "t", "e", "r", "v", "e", "n", "t", "i", "o", "n", "s", " ",
      "n", "o", "t", " ", "w", "o", "r", "k", "i", "n", "g", " ", "f", "o",
      "r", " ", "t", "h", "i", "s", " ", "u", "s", "e", "r">>

\* the four thresholds of _evaluate_strategy
AcceptanceThreshold == Frac(4, 10)

EngagementThreshold == Frac(-2, 10)

LoggingThreshold == Whole(1)

InterventionThreshold == Frac(35, 100)

\* _evaluate_strategy
evaluate_strategy(current, acceptance, engagement, logging_freq, intervention_success) ==
    IF RLt(acceptance, AcceptanceThreshold)
    THEN [should_switch |-> TRUE,
          reason |-> [text |-> "Users only accept {:.0%} of suggestions",
                      value |-> acceptance],
          trigger |-> T_acceptance, metric |-> "acceptance_rate",
          value |-> acceptance, threshold |-> AcceptanceThreshold,
          confidence |-> Frac(85, 100),
          reasoning |-> <<[text |-> "Users only accept {:.0%} of suggestions",
                           value |-> acceptance],
                          [text |-> "Strategy likely too aggressive or misaligned"]>>]
    ELSE IF RLt(engagement, EngagementThreshold)
    THEN [should_switch |-> TRUE,
          reason |-> [text |-> "User engagement trending downward"],
          trigger |-> T_disengagement, metric |-> "engagement_trend",
          value |-> engagement, threshold |-> EngagementThreshold,
          confidence |-> Frac(78, 100),
          reasoning |-> <<[text |-> "User engagement trending downward"],
                          [text |-> "Current strategy may be causing overwhelm"]>>]
    ELSE IF RLt(logging_freq, LoggingThreshold)
    THEN [should_switch |-> TRUE,
          reason |-> [text |-> "Logging only {:.1f} meals per day",
                      value |-> logging_freq],
          trigger |-> T_logging, metric |-> "logging_frequency",
          value |-> logging_freq, threshold |-> LoggingThreshold,
          confidence |-> Frac(82, 100),
          reasoning |-> <<[text |-> "Logging only {:.1f} meals per day",
                           value |-> logging_freq],
                          [text |-> "Reduce detail to rebuild habit"]>>]
    ELSE IF RLt(intervention_success, InterventionThreshold)
    THEN [should_switch |-> TRUE,
          reason |-> [text |-> "Interventions only succeed {:.0%}",
                      value |-> intervention_success],
          trigger |-> T_interventions, metric |-> "intervention_success_rate",
          value |-> intervention_success, threshold |-> InterventionThreshold,
          confidence |-> Frac(75, 100),
          reasoning |-> <<[text |-> "Interventions only succeed {:.0%}",
                           value |-> intervention_success],
                          [text |-> "Different approach needed"]>>]
    ELSE [should_switch |-> FALSE,
          reason |-> [text |-> "Current strategy performing adequately"],
          trigger |-> None, metric |-> None, value |-> None,
          threshold |-> None, confidence |-> Whole(0),
          reasoning |-> <<[text |-> "Current strategy performing adequately"],
                          [text |-> "Acceptance: {:.0%}, Engagement: {:+.0%}",
                           value |-> <<acceptance, engagement>>]>>]

\* _recommend_strategy: `in` compares characters as they are, capitals
\* included
recommend_strategy(old_strategy, trigger, goal) ==
    LET goal_lower == IF IsNull(goal) THEN <<>> ELSE Lower(goal)
    IN  IF Contains(trigger, W_acceptance) /\ Contains(old_strategy, W_calorie)
        THEN IF Contains(goal_lower, W_energy) \/ Contains(goal_lower, W_mood)
             THEN "meal_timing_focused"
             ELSE IF Contains(goal_lower, W_intuitive)
                  THEN "intuitive_eating_focused"
                  ELSE "meal_regularity_focused"
        ELSE IF Contains(trigger, W_disengagement) THEN "minimal_tracking"
        ELSE IF Contains(trigger, W_logging) THEN "trend_only_summaries"
        ELSE IF Contains(trigger, W_interventions)
             THEN IF Contains(goal_lower, W_consistency)
                  THEN "habit_stacking"
                  ELSE "goal_aligned_tracking"
        ELSE "adaptive_balanced"

\* the strategies _predict_impact has a sentence for
KnownStrategies ==
    {"meal_timing_focused", "intuitive_eating_focused", "minimal_tracking",
     "trend_only_summaries", "habit_stacking", "goal_aligned_tracking",
     "adaptive_balanced"}

\* _predict_impact: the sentence of the strategy, named here by its key
predict_impact(new_strategy) ==
    IF new_strategy \in KnownStrategies
    THEN [impact_of |-> new_strategy]
    ELSE [impact_of |-> "default"]

\* a guard that lets one day of data through
EnoughDaysFromOne(days_with_strategy) == days_with_strategy >= 1

\* the negation of `days_with_strategy < 2`
EnoughDays(days_with_strategy) == ~(days_with_strategy < 2)

\* a verdict that follows the engagement metrics handed over
StrategyProcessFromMetrics(context) ==
    Return([strategy_switch |->
                Get(context, "engagement_metrics",
                    [today_meals |-> 0]).today_meals = 0,
            recommendation |-> "Continue monitoring"])

\* AdaptiveStrategyAgent.process
StrategyProcess(context) ==
    LET current_strategy == Get(context, "current_strategy", S_calorie_focused)
        acceptance == Get(context, "acceptance_rate", Frac(5, 10))
        engagement == Get(context, "engagement_trend", Whole(0))
        logging_freq == Get(context, "logging_frequency", Frac(15, 10))
        intervention_success ==
            Get(context, "intervention_success_rate", Frac(6, 10))
        goal == Get(context, "user_goal", <<>>)
        days_with_strategy == Get(context, "days_with_strategy", 3)
        evaluation ==
            evaluate_strategy(current_strategy, acceptance, engagement,
                              logging_freq, intervention_success)
        new_strategy ==
            recommend_strategy(current_strategy, evaluation.trigger, goal)
    IN  IF ~EnoughDays(days_with_strategy)
        THEN Return([strategy_switch |-> FALSE,
                     reason |-> [text |->
                                    "Insufficient data for adaptation decision"],
                     data_required |-> 2,
                     days_tracked |-> days_with_strategy])
        ELSE IF ~evaluation.should_switch
        THEN Return([strategy_switch |-> FALSE,
                     current_strategy |-> current_strategy,
                     reason |-> evaluation.reason,
                     metrics |-> [acceptance_rate |-> acceptance,
                                  engagement_trend |-> engagement,
                                  intervention_success |-> intervention_success],
                     recommendation |-> "Continue monitoring"])
        ELSE Return([strategy_switch |-> TRUE,
                     old_strategy |-> current_strategy,
                     new_strategy |-> new_strategy,
                     trigger |-> evaluation.trigger,
                     trigger_metric |-> evaluation.metric,
                     trigger_value |-> evaluation.value,
                     threshold |-> evaluation.threshold,
                     confidence |-> evaluation.confidence,
                     expected_impact |-> predict_impact(new_strategy),
                     adaptation_reasoning |-> evaluation.reasoning,
                     experiment_id |-> "strategy_switch_{now}",
                     opik_metadata |->
                         [agent |-> "AdaptiveStrategyAgent",
                          decision_type |-> "strategy_adaptation",
                          old_strategy |-> current_strategy,
                          new_strategy |-> new_strategy,
                          trigger_metric |-> evaluation.metric,
                          days_on_strategy |-> days_with_strategy]])

-----------------------------------------------------------------------------
(* WeeklyReflectionAgent                                                   *)

W_breakfast == <<"b", "r", "e", "a", "k", "f", "a", "s", "t">>

W_lunch == <<"l", "u", "n", "c", "h">>

W_dinner == <<"d", "i", "n", "n", "e", "r">>

W_snack == <<"s", "n", "a", "c", "k">>

\* "Energy is highest on days with "
P_energy_highest ==
    <<"E", "n", "e", "r", "g", "y", " ", "i", "s", " ", "h", "i", "g", "h",
      "e", "s", "t", " ", "o", "n", " ", "d", "a", "y", "s", " ", "w", "i",
      "t", "h", " ">>

\* "Skipping "
P_skipping ==
    <<"S", "k", "i", "p", "p", "i", "n", "g", " ">>

\* " often leads to energy dips"
P_leads_to_dips ==
    <<" ", "o", "f", "t", "e", "n", " ", "l", "e", "a", "d", "s", " ", "t",
      "o", " ", "e", "n", "e", "r", "g", "y", " ", "d", "i", "p", "s">>

\* "You consistently logged "
P_consistently ==
    <<"Y", "o", "u", " ", "c", "o", "n", "s", "i", "s", "t", "e", "n", "t",
      "l", "y", " ", "l", "o", "g", "g", "e", "d", " ">>

\* the keys of the dict _group_by_meal_type builds, in its order
MealTypes == <<W_breakfast, W_lunch, W_dinner, W_snack>>

\* the branch of the hour test that _group_by_meal_type, _count_skipped_meal
\* and _find_most_consistent_meal share: 1 breakfast, 2 lunch, 3 dinner,
\* 4 any other hour
MealTypeOfHour(hour) ==
    IF 6 <= hour /\ hour < 12 THEN 1
    ELSE IF 12 <= hour /\ hour < 17 THEN 2
    ELSE IF 17 <= hour /\ hour < 21 THEN 3
    ELSE 4

\* _group_by_meal_type: a meal without "time" counts as "12:00", one whose
\* "time" int() rejects is dropped
group_by_meal_type(meals) ==
    [t \in 1..4 |->
        SelectSeq(meals,
                  LAMBDA meal :
                      LET time_str == Get(meal, "time", Clock(12, 0))
                      IN  time_str.valid /\ MealTypeOfHour(time_str.h) = t)]

HighEnergyAfter(meal) ==
    Has(meal, "energy_after") /\ meal["energy_after"] \in {"high", "good"}

\* _calculate_energy_correlation
calculate_energy_correlation(meal_list) ==
    IF meal_list = <<>> THEN Frac(1, 2)
    ELSE Frac(Len(SelectSeq(meal_list, HighEnergyAfter)), Len(meal_list))

\* _count_skipped_meal: here a meal without "time" is dropped
count_skipped_meal(t, meals, days) ==
    LET dates_with_meal ==
            {Get(meals[i], "date", "") :
                i \in {j \in DOMAIN meals :
                           /\ Has(meals[j], "time")
                           /\ meals[j]["time"].valid
                           /\ MealTypeOfHour(meals[j]["time"].h) = t}}
    IN  Max(0, days - Cardinality(dates_with_meal))

\* the list meal_types of _find_most_consistent_meal
RECURSIVE LoggedMealTypes(_)
LoggedMealTypes(meals) ==
    IF meals = <<>> THEN <<>>
    ELSE LET meal == Head(meals)
             t == IF Has(meal, "time") /\ meal["time"].valid
                  THEN MealTypeOfHour(meal["time"].h) ELSE 4
         IN  (IF t < 4 THEN <<t>> ELSE <<>>) \o LoggedMealTypes(Tail(meals))

\* _find_most_consistent_meal: Counter(meal_types).most_common(1), which
\* among equal counts gives the type met first
find_most_consistent_meal(meals) ==
    LET meal_types == LoggedMealTypes(meals)
        Count(t) == Len(SelectSeq(meal_types, LAMBDA x : x = t))
        First(t) == CHOOSE i \in DOMAIN meal_types :
                        /\ meal_types[i] = t
                        /\ \A j \in 1..(i - 1) : meal_types[j] # t
        seen == {meal_types[i] : i \in DOMAIN meal_types}
    IN  IF meal_types = <<>> THEN None
        ELSE Some(MealTypes[CHOOSE t \in seen :
                      \A o \in seen \ {t} :
                          \/ Count(o) < Count(t)
                          \/ Count(o) = Count(t) /\ First(t) < First(o)])

\* _extract_meal_type
extract_meal_type(pattern) ==
    IF Contains(Lower(pattern), W_breakfast) THEN Some(W_breakfast)
    ELSE IF Contains(Lower(pattern), W_lunch) THEN Some(W_lunch)
    ELSE IF Contains(Lower(pattern), W_dinner) THEN Some(W_dinner)
    ELSE None

\* _discover_patterns
discover_patterns(meals, energy_tags, days_active) ==
    LET meal_times == group_by_meal_type(meals)
        EnergyPattern(t) ==
            LET corr_energy == calculate_energy_correlation(meal_times[t])
            IN  IF Len(meal_times[t]) > 2 /\ RLt(Frac(6, 10), corr_energy)
                THEN <<[pattern |-> P_energy_highest \o MealTypes[t],
                        confidence |->
                            RMin(Frac(95, 100), RAdd(Frac(6, 10), corr_energy)),
                        days_observed |-> Len(meal_times[t]),
                        trend |-> "positive"]>>
                ELSE <<>>
        SkipPattern(t) ==
            LET skip_count == count_skipped_meal(t, meals, days_active)
            IN  IF skip_count > 0
                THEN <<[pattern |->
                            P_skipping \o MealTypes[t] \o P_leads_to_dips,
                        confidence |->
                            RMin(Frac(90, 100),
                                 RAdd(Frac(5, 10), Frac(15 * skip_count, 100))),
                        days_observed |-> skip_count,
                        trend |-> "negative"]>>
                ELSE <<>>
        most_consistent_meal == find_most_consistent_meal(meals)
        structure ==
            IF days_active > 3 /\ most_consistent_meal.some
            THEN <<[pattern |-> P_consistently \o most_consistent_meal.val,
                    confidence |-> Frac(85, 100),
                    days_observed |-> days_active,
                    trend |-> "positive"]>>
            ELSE <<>>
    IN  Take(EnergyPattern(1) \o EnergyPattern(2) \o EnergyPattern(3)
             \o EnergyPattern(4) \o SkipPattern(1) \o SkipPattern(2)
             \o SkipPattern(3) \o structure, 3)

F_keep_logging == [text |-> "Keep logging consistently!"]

F_timing(meal_type) ==
    [text |-> "Try consistent {} timing next week", meal_type |-> meal_type]

F_energy == [text |-> "Keep up what's working with your energy!"]

F_good_path == [text |-> "Continue with what you're doing - you're on a good path!"]

\* the loop of _determine_focus from the i-th pattern on
RECURSIVE FocusLoop(_, _)
FocusLoop(patterns, i) ==
    IF i > Len(patterns) THEN F_good_path
    ELSE LET pattern == patterns[i]
             meal_type == extract_meal_type(pattern.pattern)
         IN  IF pattern.trend = "negative"
             THEN IF meal_type.some THEN F_timing(meal_type.val)
                  ELSE FocusLoop(patterns, i + 1)
             ELSE IF /\ pattern.trend = "positive"
                     /\ Contains(pattern.pattern, W_energy)
                  THEN F_energy
                  ELSE FocusLoop(patterns, i + 1)

\* _determine_focus; the goal is not read
determine_focus(patterns) ==
    IF patterns = <<>> THEN F_keep_logging ELSE FocusLoop(patterns, 1)

\* _identify_wins, each win kept as its kind and the number it quotes
identify_wins(days_active, meals_logged, interventions, goal) ==
    LET consistency ==
            IF days_active >= 5
            THEN <<[win |-> "real consistency", value |-> days_active]>>
            ELSE IF days_active >= 3
            THEN <<[win |-> "building the habit", value |-> days_active]>>
            ELSE <<>>
        volume ==
            IF meals_logged >= 15
            THEN <<[win |-> "great data", value |-> meals_logged]>>
            ELSE IF meals_logged >= 10
            THEN <<[win |-> "solid commitment", value |-> meals_logged]>>
            ELSE <<>>
        guidance ==
            IF interventions >= 3
            THEN <<[win |-> "open to growth", value |-> interventions]>>
            ELSE IF interventions >= 1
            THEN <<[win |-> "flexibility"]>>
            ELSE <<>>
        goal_specific ==
            IF Contains(Lower(goal), W_energy) /\ days_active > 4
            THEN <<[win |-> "tracking energy patterns"]>>
            ELSE IF Contains(Lower(goal), W_consistency) /\ days_active >= 6
            THEN <<[win |-> "amazing consistency"]>>
            ELSE <<>>
    IN  Take(consistency \o volume \o guidance \o goal_specific, 3)

\* _summarize_week
summarize_week(days_active, meals_logged) ==
    IF days_active >= 6 /\ meals_logged >= 15 THEN "Strong week"
    ELSE IF days_active >= 4 /\ meals_logged >= 10 THEN "Solid week"
    ELSE IF days_active >= 3 THEN "Getting started"
    ELSE "Week in progress"

\* _calculate_motivation
calculate_motivation(patterns, wins, days_active) ==
    LET positive_patterns ==
            Len(SelectSeq(patterns, LAMBDA p : p.trend = "positive"))
    IN  RMin(Whole(1),
             RAdd(RAdd(RAdd(Frac(1, 2),
                  RMin(Frac(25, 100), Frac(25 * days_active, 700))),
                  RMin(Frac(15, 100), Frac(15 * Len(wins), 300))),
                  RMin(Frac(10, 100), Frac(10 * positive_patterns, 300))))

\* _assess_trend
assess_trend(prior_week, days_active) ==
    IF ~prior_week.some THEN "stable"
    ELSE LET prior_days == Get(prior_week.val, "days_active", 3)
         IN  IF days_active > prior_days + 1 THEN "improving"
             ELSE IF days_active < prior_days - 1 THEN "declining"
             ELSE "stable"

\* WeeklyReflectionAgent.process; reflection_id, opik_trace_id and the
\* reflection_message text, which repeat the clock, the wins, the patterns
\* and the focus, are left out of the result. _identify_wins calls
\* goal.lower(), which raises AttributeError for a goal of None
WeeklyProcess(context) ==
    LET meals == Get(context, "recent_meals", <<>>)
        energy_tags == Get(context, "energy_tags", <<>>)
        days_active == Get(context, "days_active", 7)
        goal == Get(context, "user_goal", <<>>)
        patterns == discover_patterns(meals, energy_tags, days_active)
        wins == identify_wins(days_active, Len(meals),
                              Get(context, "interventions_accepted", 0), goal)
        motivation == calculate_motivation(patterns, wins, days_active)
    IN  IF Len(meals) < 5
        THEN Return([reflection_message |->
                         "Keep logging! We need one week of data to find patterns.",
                     week_incomplete |-> TRUE])
        ELSE IF IsNull(goal) THEN Raise
        ELSE Return([reflection_summary |->
                         summarize_week(days_active, Len(meals)),
                     patterns_discovered |-> patterns,
                     wins_this_week |-> wins,
                     gentle_focus |-> determine_focus(patterns),
                     motivation_score |-> motivation,
                     week_trend |->
                         assess_trend(Get(context, "prior_week_data", None),
                                      days_active),
                     opik_metadata |->
                         [agent |-> "WeeklyReflectionAgent",
                          analysis_type |-> "weekly_reflection",
                          meals_analyzed |-> Len(meals),
                          days_active |-> days_active,
                          patterns_found |-> Len(patterns),
                          motivation_score |-> motivation]])

-----------------------------------------------------------------------------
(* MealAnalysisOrchestrator                                                *)

\* `x or []`
OrEmptyList(x) == IF x.some THEN x.val ELSE <<>>

\* `x or {}`
OrEmptyDict(x) == IF x.some THEN x.val ELSE EmptyDict

\* `len(x) if x else 0`
LenOrZero(x) == IF x.some THEN Len(x.val) ELSE 0

\* `user_profile.get(k, default) if user_profile else otherwise`
ProfileGet(user_profile, k, default, otherwise) ==
    IF user_profile.some /\ user_profile.val # EmptyDict
    THEN Get(user_profile.val, k, default)
    ELSE otherwise

STAGES ==
    <<"vision", "nutrition", "personalization", "wellness", "drift_detection",
      "next_action", "goal_guardian", "strategy_adapter",
      "energy_intervention", "weekly_reflection">>

\* the statement that follows a stage's try block
NextPc(stage) ==
    LET i == CHOOSE k \in DOMAIN STAGES : STAGES[k] = stage
    IN  IF i = Len(STAGES) THEN "assemble" ELSE STAGES[i + 1]

\* an except clause that gives up on the rest of the pipeline
AbortAfterFailure(stage) == "assemble"

\* where control goes once a stage's except clause has run
AfterFailure(stage) == NextPc(stage)

\* an except clause that lets the exception through
CaughtNever(out) == FALSE

\* `except Exception as e` catches whatever a stage raises
Caught(out) == out.raised

ErrorMarker == [error |-> "str(e)"]

\* a vision default that forgets the food list
VisionDefaultWithoutFoods ==
    [image_ambiguity |-> "high", error |-> "str(e)"]

VisionDefault ==
    [foods |-> <<>>, image_ambiguity |-> "high", error |-> "str(e)"]

NutritionDefault ==
    [total_calories |-> [min |-> 0, max |-> 0],
     macros |-> [protein |-> "N/A", carbs |-> "N/A", fat |-> "N/A"],
     uncertainty |-> "high",
     error |-> "str(e)"]

PersonalizationDefault ==
    [balance_status |-> "roughly_aligned",
     daily_context |-> "Unable to personalize due to an error.",
     error |-> "str(e)"]

\* "Your meal has been logged! Remember to enjoy your food and listen to
\* your body."
LoggedMessage ==
    <<"Y", "o", "u", "r", " ", "m", "e", "a", "l", " ", "h", "a", "s", " ",
      "b", "e", "e", "n", " ", "l", "o", "g", "g", "e", "d", "!", " ", "R",
      "e", "m", "e", "m", "b", "e", "r", " ", "t", "o", " ", "e", "n", "j",
      "o", "y", " ", "y", "o", "u", "r", " ", "f", "o", "o", "d", " ", "a",
      "n", "d", " ", "l", "i", "s", "t", "e", "n", " ", "t", "o", " ", "y",
      "o", "u", "r", " ", "b", "o", "d", "y", ".">>

WellnessDefault ==
    [message |-> LoggedMessage, emoji_indicator |-> "green",
     suggestions |-> <<>>, disclaimer_shown |-> TRUE, error |-> "str(e)"]

DriftFailure == [error |-> "str(e)", drift_detected |-> FALSE]

Disclaimer ==
    "This app provides general wellness insights, not medical advice."

\* _extract_energy_tags(meals)
RECURSIVE extract_energy_tags(_)
extract_energy_tags(meals) ==
    IF meals = <<>> THEN <<>>
    ELSE LET meal == Head(meals)
             tag == IF Has(meal, "energy_tag") THEN <<meal["energy_tag"]>>
                    ELSE IF Has(meal, "energy_after")
                         THEN <<meal["energy_after"]>>
                         ELSE <<>>
         IN  tag \o extract_energy_tags(Tail(meals))

\* _calculate_logging_gaps(meals): whole days from the last meal to today
calculate_logging_gaps(meals, today) ==
    IF meals = <<>> THEN 0
    ELSE IF /\ Has(meals[Len(meals)], "created_at")
            /\ IsCalendarDate(DatePart(meals[Len(meals)]["created_at"]))
         THEN today - DatePart(meals[Len(meals)]["created_at"])
         ELSE 0

\* the set of creation dates of the meals
MealDates(meals) ==
    {DatePart(meals[i]["created_at"]) :
        i \in {j \in DOMAIN meals : Has(meals[j], "created_at")}}

\* _count_active_days(meals)
count_active_days(meals) == Cardinality(MealDates(meals))

\* sorted(list(meal_dates))
RECURSIVE SortedDates(_)
SortedDates(dates) ==
    IF dates = {} THEN <<>>
    ELSE LET first == CHOOSE d \in dates : \A o \in dates : d <= o
         IN  <<first>> \o SortedDates(dates \ {first})

\* the loop of _calculate_streak over sorted_dates[i], i >= 1
RECURSIVE StreakLoop(_, _, _, _)
StreakLoop(sorted_dates, i, current_streak, max_streak) ==
    IF i > Len(sorted_dates) THEN max_streak
    ELSE IF sorted_dates[i] - sorted_dates[i - 1] = 1
         THEN StreakLoop(sorted_dates, i + 1, current_streak + 1,
                         Max(max_streak, current_streak + 1))
         ELSE StreakLoop(sorted_dates, i + 1, 1, max_streak)

\* _calculate_streak(meals): every truthy created_at gives a date string; the
\* loop hands each string of two or more to datetime.fromisoformat, outside
\* any try block
calculate_streak(meals) ==
    LET meal_dates == MealDates(meals)
    IN  IF meals = <<>> \/ meal_dates = {} THEN Return(0)
        ELSE IF /\ Cardinality(meal_dates) >= 2
                /\ \E d \in meal_dates : ~IsCalendarDate(d)
             THEN Raise
             ELSE Return(StreakLoop(SortedDates(meal_dates), 2, 1, 1))

\* the entry that stands for the meal under analysis
current_meal_entry ==
    [created_at |-> req.now,
     nutrition |-> results["nutrition_result"],
     vision |-> results["vision_result"],
     context |-> req.context]

\* (historical_meals or []) + [current_meal_entry]: `+` builds a new list
all_meals == OrEmptyList(req.historical_meals) \o <<current_meal_entry>>

\* a list object is the caller's own or one created during the call
CallerList(val) == [owner |-> "caller", val |-> val]

FreshList(val) == [owner |-> "call", val |-> val]

\* `x or []` as an object: a non-empty list x is x itself
OrEmptyListObject(x) ==
    IF x.some /\ x.val # <<>> THEN CallerList(x.val) ELSE FreshList(<<>>)

\* a copy that hands back the list it was given
ListCopyAlias(list) == list

\* list.copy()
ListCopy(list) == FreshList(list.val)

\* list.append(e) changes the list object in place
ListAppend(list, e) == [list EXCEPT !.val = Append(@, e)]

\* meals_with_current once current_meal_entry is appended to it
meals_with_current ==
    ListAppend(ListCopy(OrEmptyListObject(req.daily_meals_so_far)),
               current_meal_entry)

\* the caller's arguments after the append: they change if the list appended
\* to is the caller's own
AfterMerge ==
    IF meals_with_current.owner = "caller"
    THEN [req EXCEPT !.daily_meals_so_far = Some(meals_with_current.val)]
    ELSE req

-----------------------------------------------------------------------------
(* One call of WellnessCoachAgent.process on an arbitrary model answer     *)

MaxMsgLen == 4

MsgAlphabet == {"f", "a", "t", "F", "A", "x"}

Messages == SeqsUpTo(MsgAlphabet, MaxMsgLen)

Suggestion == <<"s">>

\* the dicts the text model may answer with
CoachJsons ==
    {m @@ s : m \in {EmptyDict} \cup {[message |-> t] : t \in Messages},
              s \in {EmptyDict,
                     [suggestions |-> <<Suggestion, Suggestion, Suggestion>>,
                      emoji_indicator |-> "orange"]}}

CoachResponses == {ApiError, BadJson} \cup {Json(d) : d \in CoachJsons}

CoachIdle == coach = [phase |-> "idle"]

CoachInit ==
    \E resp \in CoachResponses, b \in {"under_fueled", "unknown"} :
        coach = [phase |-> "called", resp |-> resp,
                 personalization_result |-> [balance_status |-> b]]

CoachProcess ==
    /\ coach.phase = "called"
    /\ coach' = [coach EXCEPT !.phase = "returned"] @@
                [out |-> WellnessProcess(coach.personalization_result,
                                         EmptyDict, EmptyDict, coach.resp)]
    /\ UNCHANGED <<pc, req, results, agents, calls, vision, drift, energy,
                 guardian, fdc, overall, nextact, strategy, weekly, streak>>


-----------------------------------------------------------------------------
(* VisionInterpreterAgent                                                  *)

\* food_key = f"{name.lower().strip()}|{portion.lower().strip()}"
food_key(food) ==
    Strip(Lower(Get(food, "name", <<>>))) \o <<"|">> \o
    Strip(Lower(Get(food, "portion", <<>>)))

\* the DEDUPLICATE FOOD loop: keep the first food of every food_key
RECURSIVE DedupFrom(_, _, _, _)
DedupFrom(foods, i, seen_foods, unique_foods) ==
    IF i > Len(foods) THEN unique_foods
    ELSE IF food_key(foods[i]) \in seen_foods
         THEN DedupFrom(foods, i + 1, seen_foods, unique_foods)
         ELSE DedupFrom(foods, i + 1, seen_foods \cup {food_key(foods[i])},
                        Append(unique_foods, foods[i]))

Deduplicate(foods) == DedupFrom(foods, 1, {}, <<>>)

\* the result returned when a barcode is found in the image
BarcodeResult(context) ==
    [foods |-> <<>>, image_ambiguity |-> "low", context_applied |-> context,
     barcode_detected |-> "barcode", is_barcode_image |-> TRUE,
     message |-> "Barcode detected in image. Processing with barcode endpoint..."]

\* the remote call VisionInterpreterAgent.process makes
VisionRemoteCalls(image) ==
    IF image = "photo" THEN <<[kind |-> "vision_model"]>> ELSE <<>>

\* VisionInterpreterAgent.process; image is "invalid" (not base64), "barcode"
\* (a barcode is decoded from it) or "photo"; resp is the vision model's answer
VisionProcess(image, context, resp) ==
    IF image = "invalid" THEN Raise
    ELSE IF image = "barcode" THEN Return(BarcodeResult(context))
    ELSE IF resp.kind # "json" THEN Raise
    ELSE LET r1 == Backfill(resp.json, "foods", <<>>)
             r2 == Backfill(r1, "image_ambiguity", "medium")
             r3 == Backfill(r2, "context_applied", context)
         IN  Return(SetKey(r3, "foods", Deduplicate(r3["foods"])))

-----------------------------------------------------------------------------
(* One call of VisionInterpreterAgent.process on an arbitrary model answer *)

MaxFoods == 3

FoodTexts == {<<"a">>, <<"A", " ">>, <<"a", "|", "a">>, <<"b">>}

\* the food entries the vision model may list; name and portion are optional
FoodItems ==
    {n @@ p : n \in {EmptyDict} \cup {[name |-> t] : t \in FoodTexts},
              p \in {EmptyDict} \cup {[portion |-> t] : t \in FoodTexts}}

VisionJsons ==
    {EmptyDict} \cup {[foods |-> f] : f \in SeqsUpTo(FoodItems, MaxFoods)}

VisionResponses == {ApiError, BadJson} \cup {Json(d) : d \in VisionJsons}

VisionInit ==
    \E image \in {"invalid", "barcode", "photo"}, resp \in VisionResponses :
        /\ image # "photo" => resp = ApiError
        /\ vision = [phase |-> "called", image |-> image, context |-> "snack",
                     resp |-> resp]

VisionInterpret ==
    /\ vision.phase = "called"
    /\ vision' = [vision EXCEPT !.phase = "returned"] @@
                 [out |-> VisionProcess(vision.image, vision.context,
                                        vision.resp)]
    /\ UNCHANGED <<pc, req, results, agents, calls, coach, drift, energy,
                 guardian, fdc, overall, nextact, strategy, weekly, streak>>

-----------------------------------------------------------------------------
(* One call of DriftDetectionAgent.process on a meal history               *)

MaxDays == 6

MaxPerDay == 2

MaxTagged == 2

\* the "time" fields carried by the first meals of a history
TimePatterns ==
    {<<>>, <<Clock(8, 0), Clock(10, 0)>>, <<Clock(8, 0), Clock(11, 0)>>,
     <<Unparsable, Clock(20, 30)>>}

\* n meals logged on calendar day d; day 0 stands for a missing created_at
MealsOn(d, n) ==
    [i \in 1..n |-> IF d = 0 THEN EmptyDict
                    ELSE [created_at |-> [date |-> d, hour |-> 12]]]

\* the meals of days d..MaxDays, ordered by created_at as the query orders them
RECURSIVE MealsFrom(_, _)
MealsFrom(perDay, d) ==
    IF d \notin DOMAIN perDay THEN <<>>
    ELSE MealsOn(d, perDay[d]) \o MealsFrom(perDay, d + 1)

\* a history with perDay[d] meals on day d (the busiest days first: the
\* analysis reads the dates as a set), the first nLow meals tagged "low",
\* the next nOther tagged "high", the first Len(clocks) carrying a "time"
History(perDay, nLow, nOther, clocks) ==
    LET base == MealsFrom(perDay, 0)
    IN  [i \in DOMAIN base |->
            base[i] @@
            (IF i <= nLow THEN [energy_tag |-> "low"]
             ELSE IF i <= nLow + nOther THEN [energy_tag |-> "high"]
             ELSE EmptyDict) @@
            (IF i <= Len(clocks) THEN [time |-> clocks[i]] ELSE EmptyDict)]

DriftInit ==
    \E perDay \in [0..MaxDays -> 0..MaxPerDay],
       nLow \in 0..MaxTagged, nOther \in 0..MaxTagged,
       clocks \in TimePatterns, days_tracked \in {7, 30} :
        /\ nLow + nOther <= MaxTagged
        /\ \A d \in 1..(MaxDays - 1) : perDay[d] >= perDay[d + 1]
        /\ drift = [phase |-> "called",
                    user_data |->
                        [meals |-> History(perDay, nLow, nOther, clocks),
                         days_tracked |-> days_tracked]]

\* the candidate signals collected during process(user_data): none when
\* _detect_drift is not reached
CollectedSignals(user_data) ==
    LET meals == Get(user_data, "meals", <<>>)
    IN  IF Len(meals) < 5 THEN <<>>
        ELSE signals_built(analyze_patterns(meals,
                                            Get(user_data, "days_tracked", 7)))

DriftDetect ==
    /\ drift.phase = "called"
    /\ drift' = [drift EXCEPT !.phase = "returned"] @@
                [out |-> DriftProcess(drift.user_data),
                 drift_signals |-> CollectedSignals(drift.user_data)]
    /\ UNCHANGED <<pc, req, results, agents, calls, coach, vision, energy,
                 guardian, fdc, overall, nextact, strategy, weekly, streak>>

-----------------------------------------------------------------------------
(* One call of EnergyInterventionAgent._detect_stress_signals              *)

MaxRecent == 4

MaxTags == 2

\* the recent meals a caller may pass
EnergyMeals ==
    {EmptyDict,
     [time |-> Clock(8, 0), calories_estimate |-> 300],
     [time |-> Clock(21, 0), calories_estimate |-> 700],
     [time |-> Clock(21, 0)],
     [time |-> Unparsable, calories_estimate |-> 300]}

EnergyInit ==
    \E recent_meals \in SeqsUpTo(EnergyMeals, MaxRecent),
       energy_tags \in SeqsUpTo({"low", "high"}, MaxTags),
       logging_gaps \in {0, 2, 3} :
        energy = [phase |-> "called",
                  user_data |-> [recent_meals |-> recent_meals,
                                 energy_tags |-> energy_tags,
                                 logging_gaps |-> logging_gaps]]

EnergyDetect ==
    /\ energy.phase = "called"
    /\ energy' = [energy EXCEPT !.phase = "returned"] @@
                 [signals |-> detect_stress_signals(energy.user_data),
                  out |-> EnergyProcess(energy.user_data)]
    /\ UNCHANGED <<pc, req, results, agents, calls, coach, vision, drift,
                 guardian, fdc, overall, nextact, strategy, weekly, streak>>

-----------------------------------------------------------------------------
(* analyze_meal, one step per stage                                        *)

MaxHistory == 4

Rice == [name |-> <<"r">>, portion |-> <<"1">>, confidence |-> "high"]

Nameless == [portion |-> <<"1">>, confidence |-> "low"]

\* what the remote models may answer during one analysis
PipelineVisionResponses ==
    {ApiError, Json(EmptyDict),
     Json([foods |-> <<Rice>>, image_ambiguity |-> "low"]),
     Json([foods |-> <<Rice, Nameless>>])}

NutritionResponses ==
    {ApiError, Json(EmptyDict),
     Json([total_calories |-> [min |-> 100, max |-> 200],
           macros |-> [protein |-> "20%", carbs |-> "50%", fat |-> "30%"],
           uncertainty |-> "low"]),
     Json([total_calories |-> [min |-> 300, max |-> 200]]),
     Json([total_calories |-> [min |-> 100]])}

PersonalizationResponses ==
    {BadJson, Json(EmptyDict),
     Json([balance_status |-> "under_fueled", daily_context |-> "light day"])}

WellnessResponses ==
    {ApiError, Json(EmptyDict), Json([message |-> <<>>]),
     Json([message |-> <<"o", "k">>]),
     Json([message |-> <<"f", "a", "t">>,
           suggestions |-> <<Suggestion, Suggestion, Suggestion>>])}

\* a stored meal as the request layer hands it over
StoredMeal(d) ==
    [nutrition_result |-> EmptyNutrition, vision_result |-> EmptyDict,
     created_at |-> [date |-> d, hour |-> 12], context |-> "meal"]

\* one meal on each of the days 1..n
DailyHistory(n) == [d \in 1..n |-> StoredMeal(d)]

Profile == [id |-> 1, activity_level |-> "moderate", goal |-> W_energy]

\* a history of two meals a day over four days, each tagged "low"
TiredHistory ==
    [i \in 1..8 |-> [energy_tag |-> "low"] @@ StoredMeal((i + 1) \div 2)]

\* a call on the fifth day of that history
TiredRequest ==
    [image |-> "photo", image_mime_type |-> "image/jpeg", context |-> "snack",
     user_profile |-> Some(Profile), daily_meals_so_far |-> None,
     historical_meals |-> Some(TiredHistory), now |-> [date |-> 5, hour |-> 12]]

\* the profile of a user who never set a goal, as the request layer builds
\* it: the key is there and holds None
NullGoalProfile == [id |-> 1, activity_level |-> "moderate", goal |-> NullText]

\* profiles without a goal: the key missing, empty, or None
NoGoalProfiles ==
    {[id |-> 1, activity_level |-> "moderate"],
     [id |-> 1, activity_level |-> "moderate", goal |-> <<>>],
     NullGoalProfile}

NoGoalRequests ==
    {[image |-> "photo", image_mime_type |-> "image/jpeg", context |-> "snack",
      user_profile |-> Some(p), daily_meals_so_far |-> None,
      historical_meals |-> None, now |-> [date |-> 1, hour |-> 12]] :
        p \in NoGoalProfiles}

\* the arguments of the call and the clock it reads
Requests ==
    {TiredRequest} \cup NoGoalRequests \cup
    {[image |-> image, image_mime_type |-> "image/jpeg", context |-> "snack",
      user_profile |-> p[1], daily_meals_so_far |-> p[2],
      historical_meals |-> h[1], now |-> [date |-> h[2], hour |-> 12]] :
        image \in {"invalid", "barcode", "photo"},
        p \in {<<None, None>>,
               <<Some(Profile), Some(<<StoredMeal(MaxHistory + 1)>>)>>},
        h \in {<<None, MaxHistory + 1>>,
               <<Some(DailyHistory(MaxHistory)), MaxHistory + 1>>,
               <<Some(DailyHistory(MaxHistory)), MaxHistory + 4>>}}

PipelineInit ==
    /\ req \in Requests
    /\ pc = "vision"
    /\ results = [timestamp |-> req.now, context |-> req.context]
    /\ agents = EmptyDict
    /\ calls = <<>>

\* the remote calls a stage makes on the arguments it is given
RemoteCalls(stage, kwargs) ==
    IF stage = "vision" THEN VisionRemoteCalls(kwargs.image_base64)
    ELSE IF stage = "nutrition"
    THEN NutritionRemoteCalls(kwargs.vision_result)
    ELSE IF stage = "personalization" THEN PersonalizationRemoteCalls
    ELSE IF stage = "wellness" THEN WellnessRemoteCalls(kwargs.vision_result)
    ELSE <<>>

Logged(stage, kwargs) ==
    Append(calls, [stage |-> stage, kwargs |-> kwargs,
                   remote |-> RemoteCalls(stage, kwargs)])

\* where a stage's try/except leaves control
Leave(stage, out) ==
    IF ~out.raised THEN NextPc(stage)
    ELSE IF Caught(out) THEN AfterFailure(stage)
    ELSE "raised"

\* a stage that fills its slot of results["agents"]
SlotFill(stage, out) ==
    /\ agents' = IF ~out.raised THEN SetKey(agents, stage, out.value)
                 ELSE IF Caught(out)
                      THEN SetKey(agents, stage,
                                  IF stage = "drift_detection"
                                  THEN DriftFailure ELSE ErrorMarker)
                      ELSE agents
    /\ pc' = Leave(stage, out)
    /\ UNCHANGED <<results, coach, vision, drift, energy,
                 guardian, fdc, overall, nextact, strategy, weekly, streak>>

\* a stage that only fills its slot of results["agents"]
SlotOnly(stage, out) == SlotFill(stage, out) /\ UNCHANGED req

\* a stage that fills its slot and results[key]
SlotAndResult(stage, out, key, default) ==
    /\ agents' = IF ~out.raised THEN SetKey(agents, stage, out.value)
                 ELSE IF Caught(out) THEN SetKey(agents, stage, ErrorMarker)
                 ELSE agents
    /\ results' = IF ~out.raised THEN SetKey(results, key, out.value)
                  ELSE IF Caught(out) THEN SetKey(results, key, default)
                  ELSE results
    /\ pc' = Leave(stage, out)
    /\ UNCHANGED <<req, coach, vision, drift, energy,
                 guardian, fdc, overall, nextact, strategy, weekly, streak>>

\* a stage either does what its agent does or, when fault holds, raises from
\* somewhere else inside its try block
Attempt(fault, out) == IF fault THEN Raise ELSE out

\* [f.get("confidence", "medium") for f in vision_result.get("foods", [])]
FoodConfidences(vision_result) ==
    LET foods == Get(vision_result, "foods", <<>>)
    IN  [i \in DOMAIN foods |-> Get(foods[i], "confidence", "medium")]

\* results["confidence_score"] once the vision stage returned or raised
ConfidenceScore(out) ==
    IF ~out.raised
    THEN calculate_overall_confidence(FoodConfidences(out.value))
    ELSE "low"

\* Agent 1: Vision Interpreter, then the overall confidence
RunVision ==
    /\ pc = "vision"
    /\ \E resp \in PipelineVisionResponses, fault \in BOOLEAN :
        LET out == Attempt(fault,
                           VisionProcess(req.image, req.context, resp))
        IN  /\ calls' = Logged("vision",
                               [image_base64 |-> req.image,
                                image_mime_type |-> req.image_mime_type,
                                context |-> req.context])
            /\ agents' = IF ~out.raised THEN SetKey(agents, "vision", out.value)
                         ELSE IF Caught(out)
                              THEN SetKey(agents, "vision", ErrorMarker)
                              ELSE agents
            /\ results' =
                 IF ~out.raised
                 THEN SetKey(SetKey(results, "vision_result", out.value),
                             "confidence_score", ConfidenceScore(out))
                 ELSE IF Caught(out)
                      THEN SetKey(SetKey(results, "vision_result",
                                         VisionDefault),
                                  "confidence_score", ConfidenceScore(out))
                      ELSE results
            /\ pc' = Leave("vision", out)
    /\ UNCHANGED <<req, coach, vision, drift, energy,
                 guardian, fdc, overall, nextact, strategy, weekly, streak>>

\* Agent 2: Nutrition Reasoner
RunNutrition ==
    /\ pc = "nutrition"
    /\ \E resp \in NutritionResponses, fault \in BOOLEAN :
        /\ calls' = Logged("nutrition",
                           [vision_result |-> results["vision_result"]])
        /\ SlotAndResult("nutrition",
                         Attempt(fault,
                                 NutritionProcess(results["vision_result"],
                                                  resp)),
                         "nutrition_result", NutritionDefault)

\* Agent 3: Personalization Agent
RunPersonalization ==
    /\ pc = "personalization"
    /\ \E resp \in PersonalizationResponses, fault \in BOOLEAN :
        /\ calls' = Logged("personalization",
                           [nutrition_result |-> results["nutrition_result"],
                            user_profile |-> req.user_profile,
                            daily_meals_so_far |-> req.daily_meals_so_far])
        /\ SlotAndResult("personalization",
                         Attempt(fault,
                                 PersonalizationProcess(
                                     results["nutrition_result"],
                                     req.user_profile,
                                     req.daily_meals_so_far, resp)),
                         "personalization_result", PersonalizationDefault)

\* Agent 4: Wellness Coach
RunWellness ==
    /\ pc = "wellness"
    /\ \E resp \in WellnessResponses, fault \in BOOLEAN :
        /\ calls' = Logged("wellness",
                           [personalization_result |->
                                results["personalization_result"],
                            nutrition_result |-> results["nutrition_result"],
                            vision_result |-> results["vision_result"]])
        /\ SlotAndResult("wellness",
                         Attempt(fault,
                                 WellnessProcess(
                                     results["personalization_result"],
                                     results["nutrition_result"],
                                     results["vision_result"], resp)),
                         "wellness_result", WellnessDefault)

\* the current meal is merged into the day's meals, then
\* Agent 5: Drift Detection
RunDrift ==
    /\ pc = "drift_detection"
    /\ \E fault \in BOOLEAN :
        LET user_data ==
                [user_id |-> ProfileGet(req.user_profile, "id", 0, 0),
                 meals |-> all_meals,
                 days_tracked |-> 30,
                 user_goal |-> ProfileGet(req.user_profile, "goal", "None", "")]
        IN  /\ req' = AfterMerge
            /\ calls' = Logged("drift_detection", [user_data |-> user_data])
            /\ SlotFill("drift_detection",
                        Attempt(fault, Return(DriftProcess(user_data))))

\* Agent 6: Next Action Decision
RunNextAction ==
    /\ pc = "next_action"
    /\ \E fault \in BOOLEAN :
        LET context ==
                [current_meal |-> results["nutrition_result"],
                 user_energy |-> ProfileGet(req.user_profile, "recent_energy",
                                            W_medium, W_medium),
                 recent_drift |-> Get(agents, "drift_detection", EmptyDict),
                 user_goal |-> ProfileGet(req.user_profile, "goal", <<>>, <<>>),
                 user_profile |-> OrEmptyDict(req.user_profile),
                 recent_meals |-> all_meals,
                 historical_meals |-> OrEmptyList(req.historical_meals),
                 time |-> req.now.hour,
                 day_of_week |-> req.now.date]
        IN  /\ calls' = Logged("next_action", [context |-> context])
            /\ SlotOnly("next_action",
                        Attempt(fault,
                                NextActionProcess(context, req.now.hour)))

\* Agent 7: Goal Guardian
RunGoalGuardian ==
    /\ pc = "goal_guardian"
    /\ \E fault \in BOOLEAN :
        LET context ==
                [user_goal |-> ProfileGet(req.user_profile, "goal", <<>>, <<>>),
                 recommendation |->
                     Get(results["wellness_result"], "message", <<>>),
                 recommendation_type |-> "action",
                 supporting_data |-> results["nutrition_result"],
                 historical_meals |-> OrEmptyList(req.historical_meals),
                 user_metrics |->
                     [avg_energy_tag |-> Frac(6, 10),
                      days_logged |-> LenOrZero(req.historical_meals),
                      total_meals_tracked |-> LenOrZero(req.historical_meals)]]
        IN  /\ calls' = Logged("goal_guardian", [context |-> context])
            /\ SlotOnly("goal_guardian",
                        Attempt(fault, GoalGuardianProcess(context)))

\* Agent 8: Strategy Adapter
RunStrategy ==
    /\ pc = "strategy_adapter"
    /\ \E fault \in BOOLEAN :
        LET streak_days == calculate_streak(OrEmptyList(req.historical_meals))
            context ==
                [recent_meals |-> all_meals,
                 historical_meals |-> OrEmptyList(req.historical_meals),
                 user_goal |-> ProfileGet(req.user_profile, "goal", <<>>, <<>>),
                 current_recommendation |->
                     Get(results["wellness_result"], "message", <<>>),
                 user_profile |-> OrEmptyDict(req.user_profile),
                 personalization |-> results["personalization_result"],
                 engagement_metrics |->
                     [last_30_days_meals |-> LenOrZero(req.historical_meals),
                      today_meals |-> LenOrZero(req.daily_meals_so_far),
                      streak_days |-> streak_days.value]]
        IN  IF streak_days.raised
            THEN /\ UNCHANGED calls
                 /\ SlotOnly("strategy_adapter", Raise)
            ELSE /\ calls' = Logged("strategy_adapter", [context |-> context])
                 /\ SlotOnly("strategy_adapter",
                             Attempt(fault, StrategyProcess(context)))

\* Agent 9: Energy Intervention
RunEnergy ==
    /\ pc = "energy_intervention"
    /\ \E fault \in BOOLEAN :
        LET context ==
                [user_energy_level |->
                     ProfileGet(req.user_profile, "recent_energy", "medium",
                                "medium"),
                 current_nutrition |-> results["nutrition_result"],
                 wellness_message |->
                     Get(results["wellness_result"], "message", <<>>),
                 time_of_day |-> req.now.hour,
                 recent_meals |-> all_meals,
                 historical_meals |-> OrEmptyList(req.historical_meals),
                 user_profile |-> OrEmptyDict(req.user_profile),
                 energy_tags |->
                     extract_energy_tags(OrEmptyList(req.historical_meals)),
                 logging_gaps |->
                     calculate_logging_gaps(OrEmptyList(req.historical_meals),
                                            req.now.date)]
        IN  /\ calls' = Logged("energy_intervention", [context |-> context])
            /\ SlotOnly("energy_intervention",
                        Attempt(fault, EnergyProcess(context)))

\* Agent 10: Weekly Reflection
RunWeekly ==
    /\ pc = "weekly_reflection"
    /\ \E fault \in BOOLEAN :
        LET context ==
                [user_id |-> ProfileGet(req.user_profile, "id", 0, 0),
                 recent_meals |-> all_meals,
                 historical_meals |-> OrEmptyList(req.historical_meals),
                 user_goal |-> ProfileGet(req.user_profile, "goal", <<>>, <<>>),
                 user_profile |-> OrEmptyDict(req.user_profile),
                 energy_tags |->
                     extract_energy_tags(OrEmptyList(req.historical_meals)),
                 days_active |->
                     count_active_days(OrEmptyList(req.historical_meals)),
                 week_summary |->
                     [meals_logged |-> LenOrZero(req.historical_meals),
                      average_confidence |-> "high"]]
        IN  /\ calls' = Logged("weekly_reflection", [context |-> context])
            /\ SlotOnly("weekly_reflection",
                        Attempt(fault, WeeklyProcess(context)))

\* results["disclaimer"] = ...; return results
Assemble ==
    /\ pc = "assemble"
    /\ results' = SetKey(results, "disclaimer", Disclaimer)
    /\ pc' = "done"
    /\ UNCHANGED <<req, agents, calls, coach, vision, drift, energy,
                 guardian, fdc, overall, nextact, strategy, weekly, streak>>

-----------------------------------------------------------------------------
(* One call of GoalGuardianAgent.process on a goal and a recommendation    *)

MaxPhrases == 2

\* "I want more intuitive eating"
IntuitiveGoal ==
    <<"I", " ", "w", "a", "n", "t", " ", "m", "o", "r", "e", " ", "i", "n",
      "t", "u", "i", "t", "i", "v", "e", " ", "e", "a", "t", "i", "n", "g">>

\* "count your calories carefully"
CountCalories ==
    <<"c", "o", "u", "n", "t", " ", "y", "o", "u", "r", " ", "c", "a", "l",
      "o", "r", "i", "e", "s", " ", "c", "a", "r", "e", "f", "u", "l", "l",
      "y">>

\* texts are built from these phrases, at most MaxPhrases of them in a row
GoalPhrases ==
    {IntuitiveGoal, W_energy, W_sustainable, <<"x">>}

RecPhrases ==
    {CountCalories,
     <<"Y", "o", "u", " ", "M", "U", "S", "T", " ", "r", "e", "s", "t", "r",
       "i", "c", "t", " ">>,
     <<"w", "e", "l", "l", "n", "e", "s", "s", " ", "s", "u", "p", "p", "o",
       "r", "t", " ">>,
     <<"b", "a", "d">>}

RECURSIVE Concat(_)
Concat(parts) == IF parts = <<>> THEN <<>> ELSE Head(parts) \o Concat(Tail(parts))

Texts(phrases) == {Concat(parts) : parts \in SeqsUpTo(phrases, MaxPhrases)}

\* the goals: up to two goal phrases in a row
GoalTexts == {Concat(parts) : parts \in SeqsUpTo(GoalPhrases, 2)}

\* "absent": the context carries no recommendation_type
RecTypes == {"absent", "action", "insight", "intervention"}

GuardianContext(goal, recommendation, rec_type) ==
    IF rec_type = "absent"
    THEN [user_goal |-> goal, recommendation |-> recommendation]
    ELSE [user_goal |-> goal, recommendation |-> recommendation,
          recommendation_type |-> rec_type]

GuardianInit ==
    \E goal \in GoalTexts, recommendation \in Texts(RecPhrases),
       rec_type \in RecTypes :
        guardian = [phase |-> "called",
                    context |-> GuardianContext(goal, recommendation, rec_type)]

GuardianReview ==
    /\ guardian.phase = "called"
    /\ guardian' = [guardian EXCEPT !.phase = "returned"] @@
                   [out |-> GoalGuardianProcess(guardian.context)]
    /\ UNCHANGED <<pc, req, results, agents, calls, coach, vision, drift,
                   energy, fdc, overall, nextact, strategy, weekly, streak>>

-----------------------------------------------------------------------------
(* FDCNutritionService: the process-wide cache and the lookups that share  *)
(* it.  A lookup is a coroutine: it runs without interruption from one     *)
(* remote request to the next.  Time is counted in whole days.             *)

CACHE_DURATION == 7

\* the source tags of the three searches
SourceTag(source) ==
    IF source = "fdc" THEN <<"f", "d", "c">>
    ELSE IF source = "off" THEN <<"o", "f", "f">>
    ELSE <<"o", "f", "f", "_", "b", "a", "r", "c", "o", "d", "e">>

\* _get_cache_key(food_name, source)
get_cache_key(food_name, source) ==
    LET key == Strip(Lower(food_name))
    IN  IF source # <<>> THEN key \o <<"_">> \o source ELSE key

\* a validity test that still accepts an entry exactly CACHE_DURATION old
IsCacheValidInclusive(cache_key) ==
    /\ cache_key \in DOMAIN fdc.cache_timestamps
    /\ fdc.now - fdc.cache_timestamps[cache_key] <= CACHE_DURATION

\* _is_cache_valid(cache_key)
is_cache_valid(cache_key) ==
    /\ cache_key \in DOMAIN fdc.cache_timestamps
    /\ fdc.now - fdc.cache_timestamps[cache_key] < CACHE_DURATION

\* a chain that asks the packaged-goods catalog before the verified one
ChainOffFirst(barcode) ==
    IF barcode.some /\ barcode.val # <<>>
    THEN <<"off_barcode", "off", "fdc">>
    ELSE <<"off", "fdc">>

\* the searches search_food(food_name, barcode) tries, in order
Chain(barcode) ==
    IF barcode.some /\ barcode.val # <<>>
    THEN <<"off_barcode", "fdc", "off">>
    ELSE <<"fdc", "off">>

\* what a search asks its catalog for
Query(lookup, source) ==
    IF source = "off_barcode" THEN lookup.barcode.val ELSE lookup.food_name

KeyOf(lookup, source) == get_cache_key(Query(lookup, source), SourceTag(source))

\* _extract_nutrition_fdc / _extract_nutrition_off: the record built from the
\* catalog's answer to the query
Extracted(lookup, source) ==
    [source |-> source, query |-> Query(lookup, source)]

\* NutritionReasonerAgent._lookup_fdc_data: what the reasoner sees of the
\* outcome of search_food
lookup_fdc_data(out) ==
    IF out.raised THEN EmptyDict
    ELSE IF out.value.some THEN out.value.val
    ELSE EmptyDict

\* search_food ends with the outcome out
Finish(lookup, out) ==
    [lookup EXCEPT !.pc = "done", !.out = out, !.seen = lookup_fdc_data(out)]

\* the lookup reaches the i-th search of its chain: a valid cache entry
\* answers it, otherwise the remote request is sent and the lookup waits;
\* `cached` notes whether the key was in the cache when it looked
Consult(lookup, i) ==
    LET chain == Chain(lookup.barcode)
    IN  IF i > Len(chain) THEN Finish([lookup EXCEPT !.idx = i], Return(None))
        ELSE LET source == chain[i]
                 cache_key == KeyOf(lookup, source)
             IN  IF /\ cache_key \in DOMAIN fdc.nutrition_cache
                    /\ is_cache_valid(cache_key)
                 THEN Finish([lookup EXCEPT
                                 !.idx = i,
                                 !.consulted =
                                     Append(@, [source |-> source,
                                                via |-> "cache",
                                                cached |-> TRUE])],
                             Return(Some(fdc.nutrition_cache[cache_key])))
                 ELSE [lookup EXCEPT
                          !.pc = "waiting", !.idx = i,
                          !.consulted =
                              Append(@, [source |-> source,
                                         via |-> "remote",
                                         cached |-> cache_key \in
                                             DOMAIN fdc.nutrition_cache])]

\* an except clause that lets the transport failure through
OnErrorReraise(source) == Raise

\* `except Exception: return None` in each of the three searches
OnError(source) == Return(None)

\* a clear that forgets the timestamps map
ClearedDataOnly(f) == [f EXCEPT !.nutrition_cache = EmptyDict]

\* clear_cache()
Cleared(f) ==
    [f EXCEPT !.nutrition_cache = EmptyDict, !.cache_timestamps = EmptyDict]

MaxLookups == 2

MaxClock == 7

\* the arguments of a lookup: names that share a cache key, one that does
\* not, and a call with a barcode
LookupArgs ==
    <<[food_name |-> <<"R", "i", "c", "e">>, barcode |-> None],
      [food_name |-> <<"r", "i", "c", "e", " ">>, barcode |-> None],
      [food_name |-> <<"T", "e", "a">>, barcode |-> None],
      [food_name |-> <<"R", "i", "c", "e">>, barcode |-> Some(<<"1">>)]>>

NewLookup(a) ==
    [food_name |-> LookupArgs[a].food_name, barcode |-> LookupArgs[a].barcode,
     pc |-> "ready", idx |-> 0, out |-> Return(None), seen |-> EmptyDict,
     consulted |-> <<>>]

\* the cache starts empty at import; the lookups are interchangeable, so
\* their arguments are listed in order
FdcInit ==
    \E a \in [1..MaxLookups -> DOMAIN LookupArgs] :
        /\ \A p \in 1..(MaxLookups - 1) : a[p] <= a[p + 1]
        /\ fdc = [phase |-> "running", now |-> 0,
                  nutrition_cache |-> EmptyDict,
                  cache_timestamps |-> EmptyDict,
                  lookups |-> [p \in 1..MaxLookups |-> NewLookup(a[p])]]

FdcRest ==
    UNCHANGED <<pc, req, results, agents, calls, coach, vision, drift, energy,
                guardian, overall, nextact, strategy, weekly, streak>>

\* search_food is called and runs up to its first remote request
SearchFood(p) ==
    /\ fdc.phase = "running"
    /\ fdc.lookups[p].pc = "ready"
    /\ fdc' = [fdc EXCEPT !.lookups[p] = Consult(@, 1)]
    /\ FdcRest

\* the catalog answers with a record, which is cached and returned
RemoteFound(p) ==
    /\ fdc.phase = "running"
    /\ fdc.lookups[p].pc = "waiting"
    /\ LET lookup == fdc.lookups[p]
           source == Chain(lookup.barcode)[lookup.idx]
           cache_key == KeyOf(lookup, source)
           nutrition_data == Extracted(lookup, source)
       IN  fdc' = [fdc EXCEPT
                      !.nutrition_cache = SetKey(@, cache_key, nutrition_data),
                      !.cache_timestamps = SetKey(@, cache_key, fdc.now),
                      !.lookups[p] = Finish(lookup, Return(Some(nutrition_data)))]
    /\ FdcRest

\* the catalog has nothing: the search returns None and the next one starts
RemoteNotFound(p) ==
    /\ fdc.phase = "running"
    /\ fdc.lookups[p].pc = "waiting"
    /\ fdc' = [fdc EXCEPT !.lookups[p] = Consult(@, @.idx + 1)]
    /\ FdcRest

\* the request fails (timeout, HTTP error status, malformed body)
RemoteError(p) ==
    /\ fdc.phase = "running"
    /\ fdc.lookups[p].pc = "waiting"
    /\ LET lookup == fdc.lookups[p]
           r == OnError(Chain(lookup.barcode)[lookup.idx])
       IN  fdc' = [fdc EXCEPT
                      !.lookups[p] = IF r.raised THEN Finish(lookup, Raise)
                                     ELSE Consult(lookup, lookup.idx + 1)]
    /\ FdcRest

ClearCache ==
    /\ fdc.phase = "running"
    /\ fdc.nutrition_cache # EmptyDict \/ fdc.cache_timestamps # EmptyDict
    /\ fdc' = Cleared(fdc)
    /\ FdcRest

\* a day passes; the clock is started by the first entry the cache holds,
\* since only the age of an entry is ever read
Tick ==
    /\ fdc.phase = "running"
    /\ fdc.now < MaxClock
    /\ fdc.cache_timestamps # EmptyDict
    /\ fdc' = [fdc EXCEPT !.now = @ + 1]
    /\ FdcRest

-----------------------------------------------------------------------------
(* The overall confidence checked on its own                                *)

MaxConfidences == 4

ConfidenceLevels == {"low", "medium", "high"}

\* foods as the vision stage reports them, with or without a confidence
ReportedFoods ==
    {[name |-> "rice", confidence |-> c] : c \in ConfidenceLevels}
        \cup {[name |-> "rice"]}

FoodLists ==
    UNION {[1..n -> ReportedFoods] : n \in 0..MaxConfidences}

\* what the vision stage can hand over: an exception, the barcode
\* short-circuit, or a list of foods
VisionOutcomes ==
    {Raise, Return(BarcodeResult("meal"))}
        \cup {Return([foods |-> fs, image_ambiguity |-> "low"]) : fs \in FoodLists}

OverallInit ==
    \E out \in VisionOutcomes : overall = [phase |-> "called", vision |-> out]

OverallDerive ==
    /\ overall.phase = "called"
    /\ overall' = [phase |-> "done", vision |-> overall.vision,
                   confidence_score |-> ConfidenceScore(overall.vision)]
    /\ UNCHANGED <<pc, req, results, agents, calls, coach, vision, drift,
                   energy, guardian, fdc, nextact, strategy, weekly, streak>>

-----------------------------------------------------------------------------
(* The next-action decision checked on its own                             *)

MaxLogged == 2

\* "more energy"
MoreEnergy ==
    <<"m", "o", "r", "e", " ", "e", "n", "e", "r", "g", "y">>

\* "Steady MOOD"
SteadyMood ==
    <<"S", "t", "e", "a", "d", "y", " ", "M", "O", "O", "D">>

\* "intuitive balance"
IntuitiveBalance ==
    <<"i", "n", "t", "u", "i", "t", "i", "v", "e", " ", "b", "a", "l", "a",
      "n", "c", "e">>

\* "lose weight"
LoseWeight ==
    <<"l", "o", "s", "e", " ", "w", "e", "i", "g", "h", "t">>

\* "eat better"
EatBetter ==
    <<"e", "a", "t", " ", "b", "e", "t", "t", "e", "r">>

\* the goal handed over, None when the context has no "user_goal"
Goals ==
    {None, Some(<<>>), Some(MoreEnergy), Some(SteadyMood),
     Some(IntuitiveBalance), Some(LoseWeight), Some(EatBetter)}

\* the energy handed over, None when the context has no "user_energy"
Energies == {None, Some(W_low), Some(<<"L", "O", "W">>), Some(W_medium)}

\* what the context can carry as "recent_drift"
Drifts ==
    {EmptyDict,
     [detected |-> TRUE, type |-> "logging_decline"],
     [detected |-> FALSE, type |-> "logging_decline"],
     [detected |-> TRUE, type |-> "meal_skipping"],
     [type |-> "energy_irregularity"],
     DriftFailure}

\* a logged meal without a "time", with one, and with one int() rejects
LoggedMeals ==
    {[name |-> "meal"],
     [name |-> "meal", time |-> Clock(7, 30)],
     [name |-> "meal", time |-> Clock(22, 5)],
     [name |-> "meal", time |-> Unparsable]}

\* the hours the clock can show when the agent runs
CurrentHours == {0, 7, 9, 11, 12, 13, 23}

WithOptional(d, k, opt) == IF opt.some THEN SetKey(d, k, opt.val) ELSE d

NextActionContext(user_energy, goal, recent_drift, recent_meals) ==
    WithOptional(WithOptional([recent_drift |-> recent_drift,
                               recent_meals |-> recent_meals],
                              "user_energy", user_energy),
                 "user_goal", goal)

NextActionInit ==
    \E user_energy \in Energies, goal \in Goals, recent_drift \in Drifts,
       recent_meals \in SeqsUpTo(LoggedMeals, MaxLogged),
       current_hour \in CurrentHours :
        nextact = [phase |-> "called",
                   context |-> NextActionContext(user_energy, goal,
                                                 recent_drift, recent_meals),
                   current_hour |-> current_hour]

NextActionDecide ==
    /\ nextact.phase = "called"
    /\ nextact' = [phase |-> "returned",
                   context |-> nextact.context,
                   current_hour |-> nextact.current_hour,
                   out |-> NextActionProcess(nextact.context,
                                             nextact.current_hour)]
    /\ UNCHANGED <<pc, req, results, agents, calls, coach, vision, drift,
                   energy, guardian, fdc, overall, strategy, weekly, streak>>

-----------------------------------------------------------------------------
(* The strategy adapter checked on its own                                 *)

MaxStrategyDays == 3

\* "Build consistency"
BuildConsistency ==
    <<"B", "u", "i", "l", "d", " ", "c", "o", "n", "s", "i", "s", "t", "e",
      "n", "c", "y">>

\* "minimal_tracking"
S_minimal_tracking ==
    <<"m", "i", "n", "i", "m", "a", "l", "_", "t", "r", "a", "c", "k", "i",
      "n", "g">>

\* each input is absent from the context or one of a few values on both
\* sides of its threshold
AcceptanceRates == {None, Some(Frac(3, 10)), Some(Frac(4, 10)), Some(Frac(5, 10))}

EngagementTrends == {None, Some(Frac(-3, 10)), Some(Frac(-2, 10))}

LoggingFrequencies == {None, Some(Frac(1, 2)), Some(Whole(1))}

InterventionRates == {None, Some(Frac(3, 10)), Some(Frac(35, 100))}

DaysWithStrategy == {None} \cup {Some(d) : d \in 0..MaxStrategyDays}

StrategyGoals ==
    {None, Some(MoreEnergy), Some(SteadyMood), Some(IntuitiveBalance),
     Some(BuildConsistency), Some(EatBetter)}

CurrentStrategies == {None, Some(S_calorie_focused), Some(S_minimal_tracking)}

StrategyContext(current, acceptance, engagement, logging_freq, success, goal, days) ==
    WithOptional(
      WithOptional(
        WithOptional(
          WithOptional(
            WithOptional(
              WithOptional(
                WithOptional(EmptyDict, "current_strategy", current),
                "acceptance_rate", acceptance),
              "engagement_trend", engagement),
            "logging_frequency", logging_freq),
          "intervention_success_rate", success),
        "user_goal", goal),
      "days_with_strategy", days)

StrategyInit ==
    \E current \in CurrentStrategies, acceptance \in AcceptanceRates,
       engagement \in EngagementTrends, logging_freq \in LoggingFrequencies,
       success \in InterventionRates, goal \in StrategyGoals,
       days \in DaysWithStrategy :
        strategy = [phase |-> "called",
                    context |-> StrategyContext(current, acceptance, engagement,
                                                logging_freq, success, goal,
                                                days)]

StrategyAdapt ==
    /\ strategy.phase = "called"
    /\ strategy' = [phase |-> "returned", context |-> strategy.context,
                    out |-> StrategyProcess(strategy.context)]
    /\ UNCHANGED <<pc, req, results, agents, calls, coach, vision, drift,
                   energy, guardian, fdc, overall, nextact, weekly, streak>>

-----------------------------------------------------------------------------
(* One WeeklyReflectionAgent.process call                                  *)

MaxWeekMeals == 5

\* meals of a week: breakfasts, a lunch, a dinner, one without "time" and
\* one whose "time" is no clock time
WeekMeals ==
    {[time |-> Clock(8, 0), date |-> "mon", energy_after |-> "high"],
     [time |-> Clock(8, 30), date |-> "tue", energy_after |-> "low"],
     [time |-> Clock(13, 0), date |-> "mon", energy_after |-> "good"],
     [time |-> Clock(19, 0), date |-> "tue"],
     [date |-> "mon", energy_after |-> "high"],
     [time |-> Unparsable, date |-> "tue"]}

\* days_active as given, or left out
WeekDays == {None, Some(0), Some(2)}

WeeklyInit ==
    \E meals \in SeqsUpTo(WeekMeals, MaxWeekMeals), days \in WeekDays :
        weekly = [phase |-> "called",
                  context |-> WithOptional([recent_meals |-> meals,
                                            user_goal |-> W_energy],
                                           "days_active", days)]

WeeklyReflect ==
    /\ weekly.phase = "called"
    /\ weekly' = [phase |-> "returned", context |-> weekly.context,
                  out |-> WeeklyProcess(weekly.context)]
    /\ UNCHANGED <<pc, req, results, agents, calls, coach, vision, drift,
                   energy, guardian, fdc, overall, nextact, strategy, streak>>

-----------------------------------------------------------------------------
(* One _calculate_streak call                                              *)

MaxStreakMeals == 3

\* a stored meal whose entry has no created_at
UndatedMeal == [nutrition_result |-> EmptyNutrition, context |-> "meal"]

\* a stored meal whose created_at is no ISO timestamp
GarbledMeal ==
    [nutrition_result |-> EmptyNutrition, created_at |-> Garbled,
     context |-> "meal"]

StreakMeals ==
    {StoredMeal(d) : d \in {1, 2, 3, 5}} \cup {UndatedMeal, GarbledMeal}

StreakInit ==
    \E meals \in SeqsUpTo(StreakMeals, MaxStreakMeals) :
        streak = [phase |-> "called", meals |-> meals]

StreakCount ==
    /\ streak.phase = "called"
    /\ streak' = [phase |-> "returned", meals |-> streak.meals,
                  out |-> calculate_streak(streak.meals)]
    /\ UNCHANGED <<pc, req, results, agents, calls, coach, vision, drift,
                   energy, guardian, fdc, overall, nextact, strategy, weekly>>

-----------------------------------------------------------------------------
(* Specifications: each runs one component; the others stay idle           *)

PipelineIdle ==
    /\ pc = "idle"
    /\ req = EmptyDict
    /\ results = EmptyDict
    /\ agents = EmptyDict
    /\ calls = <<>>

VisionIdle == vision = [phase |-> "idle"]

DriftIdle == drift = [phase |-> "idle"]

EnergyIdle == energy = [phase |-> "idle"]

GuardianIdle == guardian = [phase |-> "idle"]

FdcIdle == fdc = [phase |-> "idle"]

OverallIdle == overall = [phase |-> "idle"]

NextActionIdle == nextact = [phase |-> "idle"]

StrategyIdle == strategy = [phase |-> "idle"]

WeeklyIdle == weekly = [phase |-> "idle"]

StreakIdle == streak = [phase |-> "idle"]

LateIdle == StrategyIdle /\ WeeklyIdle /\ StreakIdle

\* the components added after the first five, all idle
RestIdle ==
    GuardianIdle /\ FdcIdle /\ OverallIdle /\ NextActionIdle /\ LateIdle

InitCoach ==
    CoachInit /\ PipelineIdle /\ VisionIdle /\ DriftIdle /\ EnergyIdle
    /\ RestIdle

NextCoach == CoachProcess

SpecCoach == InitCoach /\ [][NextCoach]_vars

InitVision ==
    VisionInit /\ PipelineIdle /\ CoachIdle /\ DriftIdle /\ EnergyIdle
    /\ RestIdle

NextVision == VisionInterpret

SpecVision == InitVision /\ [][NextVision]_vars

InitDrift ==
    DriftInit /\ PipelineIdle /\ CoachIdle /\ VisionIdle /\ EnergyIdle
    /\ RestIdle

NextDrift == DriftDetect

SpecDrift == InitDrift /\ [][NextDrift]_vars

InitEnergy ==
    EnergyInit /\ PipelineIdle /\ CoachIdle /\ VisionIdle /\ DriftIdle
    /\ RestIdle

NextEnergy == EnergyDetect

SpecEnergy == InitEnergy /\ [][NextEnergy]_vars

InitGuardian ==
    GuardianInit /\ PipelineIdle /\ CoachIdle /\ VisionIdle /\ DriftIdle
    /\ EnergyIdle /\ FdcIdle /\ OverallIdle /\ NextActionIdle /\ LateIdle

NextGuardian == GuardianReview

SpecGuardian == InitGuardian /\ [][NextGuardian]_vars

InitOverall ==
    OverallInit /\ PipelineIdle /\ CoachIdle /\ VisionIdle /\ DriftIdle
    /\ EnergyIdle /\ GuardianIdle /\ FdcIdle /\ NextActionIdle /\ LateIdle

NextOverall == OverallDerive

SpecOverall == InitOverall /\ [][NextOverall]_vars

InitNextAction ==
    NextActionInit /\ PipelineIdle /\ CoachIdle /\ VisionIdle /\ DriftIdle
    /\ EnergyIdle /\ GuardianIdle /\ FdcIdle /\ OverallIdle /\ LateIdle

NextNextAction == NextActionDecide

SpecNextAction == InitNextAction /\ [][NextNextAction]_vars

InitStrategy ==
    StrategyInit /\ PipelineIdle /\ CoachIdle /\ VisionIdle /\ DriftIdle
    /\ EnergyIdle /\ GuardianIdle /\ FdcIdle /\ OverallIdle /\ NextActionIdle
    /\ WeeklyIdle /\ StreakIdle

NextStrategy == StrategyAdapt

SpecStrategy == InitStrategy /\ [][NextStrategy]_vars

InitStreak ==
    StreakInit /\ PipelineIdle /\ CoachIdle /\ VisionIdle /\ DriftIdle
    /\ EnergyIdle /\ GuardianIdle /\ FdcIdle /\ OverallIdle /\ NextActionIdle
    /\ StrategyIdle /\ WeeklyIdle

NextStreak == StreakCount

SpecStreak == InitStreak /\ [][NextStreak]_vars

InitWeekly ==
    WeeklyInit /\ PipelineIdle /\ CoachIdle /\ VisionIdle /\ DriftIdle
    /\ EnergyIdle /\ GuardianIdle /\ FdcIdle /\ OverallIdle /\ NextActionIdle
    /\ StrategyIdle /\ StreakIdle

NextWeekly == WeeklyReflect

SpecWeekly == InitWeekly /\ [][NextWeekly]_vars

InitFdc ==
    FdcInit /\ PipelineIdle /\ CoachIdle /\ VisionIdle /\ DriftIdle
    /\ EnergyIdle /\ GuardianIdle /\ OverallIdle /\ NextActionIdle /\ LateIdle

NextFdc ==
    \/ \E p \in 1..MaxLookups : SearchFood(p)
    \/ \E p \in 1..MaxLookups : RemoteFound(p)
    \/ \E p \in 1..MaxLookups : RemoteNotFound(p)
    \/ \E p \in 1..MaxLookups : RemoteError(p)
    \/ ClearCache
    \/ Tick

SpecFdc == InitFdc /\ [][NextFdc]_vars

Init ==
    PipelineInit /\ CoachIdle /\ VisionIdle /\ DriftIdle /\ EnergyIdle
    /\ RestIdle

Next ==
    \/ RunVision
    \/ RunNutrition
    \/ RunPersonalization
    \/ RunWellness
    \/ RunDrift
    \/ RunNextAction
    \/ RunGoalGuardian
    \/ RunStrategy
    \/ RunEnergy
    \/ RunWeekly
    \/ Assemble

Spec == Init /\ [][Next]_vars

-----------------------------------------------------------------------------
(* Properties                                                              *)

Failed(stage) == Has(agents, stage) /\ Has(agents[stage], "error")

Done == pc = "done"

\* C1: analyze_meal never raises, whatever each stage does; the result it
\* returns holds a nutrition, a personalization and a wellness sub-result (the
\* documented default where the stage failed) and the fixed disclaimer.
C1_NeverRaises ==
    /\ pc # "raised"
    /\ Done =>
        /\ Has(results, "nutrition_result")
        /\ Has(results, "personalization_result")
        /\ Has(results, "wellness_result")
        /\ Failed("nutrition") =>
               /\ results["nutrition_result"]["total_calories"] =
                      [min |-> 0, max |-> 0]
               /\ results["nutrition_result"]["uncertainty"] = "high"
        /\ Failed("personalization") =>
               results["personalization_result"]["balance_status"] =
                   "roughly_aligned"
        /\ Failed("wellness") =>
               results["wellness_result"]["message"] = LoggedMessage
        /\ Has(results, "disclaimer")
        /\ results["disclaimer"] =
               "This app provides general wellness insights, not medical advice."

\* the vision model threw on a photo, and the result is still complete
C1_Witness ==
    /\ Done
    /\ req.image = "photo"
    /\ Failed("vision")
    /\ results["vision_result"]["foods"] = <<>>
    /\ results["nutrition_result"]["total_calories"] = [min |-> 0, max |-> 0]
    /\ Failed("personalization") /\ Failed("wellness")
    /\ results["disclaimer"] = Disclaimer

StagesCalled == [i \in DOMAIN calls |-> calls[i].stage]

TenStages ==
    <<"vision", "nutrition", "personalization", "wellness", "drift_detection",
      "next_action", "goal_guardian", "strategy_adapter",
      "energy_intervention", "weekly_reflection">>

\* C2: whatever stages fail, the ten stages run exactly once each in the fixed
\* order, and each leaves its result or a failure marker in its slot, so that
\* all ten slots are present in the end.
C2_AllStagesRun ==
    /\ Len(calls) <= 10
    /\ StagesCalled = SubSeq(TenStages, 1, Len(calls))
    /\ DOMAIN agents = Range(StagesCalled)
    /\ Done => Len(calls) = 10

\* stages failed early, in the middle and late, and every later stage ran
C2_Witness ==
    /\ Done
    /\ Failed("vision") /\ Failed("drift_detection") /\ Failed("strategy_adapter")
    /\ ~Failed("nutrition") /\ ~Failed("wellness") /\ ~Failed("weekly_reflection")
    /\ Len(calls) = 10

\* the arguments stage was called with
Args(stage) ==
    calls[CHOOSE i \in DOMAIN calls : calls[i].stage = stage].kwargs

Called(stage) == \E i \in DOMAIN calls : calls[i].stage = stage

\* C3: a stage that follows a failed stage is called with that stage's
\* documented default, never with a missing value.
C3_DefaultsVisible ==
    /\ (Called("nutrition") /\ Failed("vision")) =>
           /\ Has(Args("nutrition").vision_result, "foods")
           /\ Args("nutrition").vision_result["foods"] = <<>>
           /\ Args("nutrition").vision_result["image_ambiguity"] = "high"
    /\ \A s \in {"personalization", "wellness"} :
           (Called(s) /\ Failed("nutrition")) =>
               /\ Args(s).nutrition_result["total_calories"] =
                      [min |-> 0, max |-> 0]
               /\ Args(s).nutrition_result["uncertainty"] = "high"
    /\ (Called("wellness") /\ Failed("personalization")) =>
           Args("wellness").personalization_result["balance_status"] =
               "roughly_aligned"
    /\ (Called("next_action") /\ Failed("drift_detection")) =>
           /\ Has(Args("next_action").context.recent_drift, "drift_detected")
           /\ ~Args("next_action").context.recent_drift["drift_detected"]
    /\ (Called("goal_guardian") /\ Failed("wellness")) =>
           Args("goal_guardian").context.recommendation = LoggedMessage
    /\ (Called("strategy_adapter") /\ Failed("wellness")) =>
           Args("strategy_adapter").context.current_recommendation =
               LoggedMessage
    /\ (Called("energy_intervention") /\ Failed("wellness")) =>
           Args("energy_intervention").context.wellness_message = LoggedMessage

\* the first five stages all failed and the run still finished
C3_Witness ==
    /\ Done
    /\ \A s \in {"vision", "nutrition", "personalization", "wellness",
                 "drift_detection"} : Failed(s)
    /\ Args("nutrition").vision_result["foods"] = <<>>
    /\ Args("energy_intervention").context.wellness_message = LoggedMessage

\* C4: every assembled result holds a non-empty wellness message, calorie
\* numbers with a min and a max, and the fixed disclaimer.
C4_UsableResult ==
    Done =>
        /\ Has(results["wellness_result"], "message")
        /\ results["wellness_result"]["message"] # <<>>
        /\ Has(results["nutrition_result"], "total_calories")
        /\ Has(results["nutrition_result"]["total_calories"], "min")
        /\ Has(results["nutrition_result"]["total_calories"], "max")
        /\ results["disclaimer"] = Disclaimer

\* C6: every nutrition result that leaves the Nutrition stage has
\* total_calories.min <= total_calories.max.
C6_MinAtMostMax ==
    Has(results, "nutrition_result") =>
        LET total_calories == results["nutrition_result"]["total_calories"]
        IN  (Has(total_calories, "min") /\ Has(total_calories, "max")) =>
                total_calories["min"] <= total_calories["max"]

\* some denylisted phrase occurs in s, compared letter by letter without
\* regard to case
HasDenylistedPhrase(s) ==
    \E p \in Range(SAFETY_PHRASES_TO_AVOID) :
        \E off \in 0..(Len(s) - Len(p)) :
            \A j \in 1..Len(p) : LowerChar(s[off + j]) = LowerChar(p[j])

CoachReturned == coach.phase = "returned" /\ ~coach.out.raised

\* C5: the final wellness message contains no denylisted phrase (matched
\* case-insensitively); a raw message that contained one is replaced by the
\* fixed fallback sentence as a whole, any other raw message is kept unchanged.
C5_SafetyFilter ==
    (CoachReturned /\ Has(coach.resp.json, "message")) =>
        LET raw == coach.resp.json["message"]
            final == coach.out.value["message"]
        IN  /\ ~HasDenylistedPhrase(final)
            /\ HasDenylistedPhrase(raw) => final = SafeAlternative
            /\ ~HasDenylistedPhrase(raw) => final = raw

\* a mixed-case message with a denylisted phrase was replaced
C5_Witness ==
    /\ CoachReturned
    /\ Has(coach.resp.json, "message")
    /\ coach.resp.json["message"] = <<"x", "F", "A", "t">>
    /\ coach.out.value["message"] = SafeAlternative


-----------------------------------------------------------------------------

\* the (name, portion) pair of a food, lower-cased and trimmed
NormPair(food) ==
    <<Strip(Lower(Get(food, "name", <<>>))),
      Strip(Lower(Get(food, "portion", <<>>)))>>

\* the foods of s at the positions in I, in increasing position order
RECURSIVE SubseqAt(_, _)
SubseqAt(s, I) ==
    IF I = {} THEN <<>>
    ELSE LET hi == CHOOSE i \in I : \A j \in I : j <= i
         IN  Append(SubseqAt(s, I \ {hi}), s[hi])

\* the first occurrence of every normalized pair, in first-seen order
FirstOccurrences(foods) ==
    SubseqAt(foods, {i \in DOMAIN foods :
                        \A j \in 1..(i - 1) :
                            NormPair(foods[j]) # NormPair(foods[i])})

VisionReturned ==
    vision.phase = "returned" /\ ~vision.out.raised /\ vision.image = "photo"

\* C7: the Vision Interpreter's food list holds no two entries with the same
\* case-insensitive, trimmed (name, portion) pair, and it is exactly the first
\* occurrence of each such pair of the model's list, in first-seen order.
C7_DedupByPair ==
    VisionReturned =>
        LET given == Get(vision.resp.json, "foods", <<>>)
            out == vision.out.value["foods"]
        IN  /\ \A i, j \in DOMAIN out :
                   NormPair(out[i]) = NormPair(out[j]) => i = j
            /\ out = FirstOccurrences(given)


-----------------------------------------------------------------------------

DriftMeals == drift.user_data["meals"]

\* the distinct calendar dates the meals were created on
TrackedDates ==
    {DriftMeals[i]["created_at"].date :
        i \in {j \in DOMAIN DriftMeals : Has(DriftMeals[j], "created_at")}}

DriftReturned == drift.phase = "returned"

\* C8: no drift is reported for meals that span fewer than 5 distinct calendar
\* dates or number fewer than 5, whatever the days_tracked hint, the energy
\* tags and the meal times are.
C8_NoDriftUnderFiveDays ==
    (DriftReturned /\ (Cardinality(TrackedDates) < 5 \/ Len(DriftMeals) < 5))
        => ~drift.out.drift_detected

\* ten low-energy meals over four dates, hinted as 30 tracked days: no drift
C8_Witness ==
    /\ DriftReturned
    /\ Len(DriftMeals) >= 10
    /\ Cardinality(TrackedDates) = 4
    /\ drift.user_data["days_tracked"] = 30
    /\ \E i \in DOMAIN DriftMeals : Get(DriftMeals[i], "energy_tag", "") = "low"
    /\ \A i \in DOMAIN DriftMeals : Get(DriftMeals[i], "energy_tag", "low") = "low"
    /\ ~drift.out.drift_detected

\* the candidate signals whose trigger condition holds on the patterns of the
\* meals, with their severity and their place in the evaluation order
Candidates(patterns) ==
    LET skipped == Get(patterns, "skipped_meals_estimate", 0)
        log_freq == Get(patterns, "logging_frequency", Whole(0))
        low == Get(patterns, "low_energy_frequency", Whole(0))
        stability == Get(patterns, "timing_stability", Whole(1))
    IN  {[type |-> "meal_skipping", order |-> 1,
          severity |-> IF skipped >= 7 THEN Whole(1) ELSE Frac(skipped, 7)] :
            x \in {1} \cap {IF skipped > 3 THEN 1 ELSE 0}}
        \cup
        {[type |-> "logging_decline", order |-> 2,
          severity |-> IF RLt(Whole(1), log_freq) THEN Whole(0)
                       ELSE RSub(Whole(1), log_freq)] :
            x \in {1} \cap {IF RLt(log_freq, Frac(3, 2)) THEN 1 ELSE 0}}
        \cup
        {[type |-> "energy_irregularity", order |-> 3,
          severity |-> IF RLe(Frac(7, 10), low) THEN Whole(1)
                       ELSE RDiv(RSub(low, Frac(3, 10)), Frac(4, 10))] :
            x \in {1} \cap {IF RLt(Frac(4, 10), low) THEN 1 ELSE 0}}
        \cup
        {[type |-> "timing_instability", order |-> 4,
          severity |-> RSub(Whole(1), stability)] :
            x \in {1} \cap {IF RLt(stability, Frac(6, 10)) THEN 1 ELSE 0}}

\* c is the most severe candidate, the earliest in evaluation order on a tie
IsReported(c, C) ==
    /\ c \in C
    /\ \A o \in C : RLe(o.severity, c.severity)
    /\ \A o \in C : (o.order < c.order) => RLt(o.severity, c.severity)

DriftPatterns ==
    analyze_patterns(DriftMeals, drift.user_data["days_tracked"])

\* C9 as stated: a reported drift is the most severe triggered signal (the
\* earliest on a tie), and no drift is reported exactly when no trigger holds.
C9_AsStated ==
    DriftReturned =>
        LET C == Candidates(DriftPatterns)
        IN  /\ drift.out.drift_detected <=> (C # {})
            /\ drift.out.drift_detected =>
                   \E c \in C : /\ IsReported(c, C)
                                /\ drift.out.drift_type = c.type
                                /\ drift.out.severity = c.severity

\* C9 (amended): a reported drift is the most severe triggered signal (the
\* earliest on a tie); for at least 5 meals over at least 5 distinct dates no
\* drift is reported exactly when no trigger holds.
C9_MostSevereReported ==
    DriftReturned =>
        LET C == Candidates(DriftPatterns)
        IN  /\ (Len(DriftMeals) >= 5 /\ Cardinality(TrackedDates) >= 5) =>
                   (drift.out.drift_detected <=> (C # {}))
            /\ drift.out.drift_detected =>
                   \E c \in C : /\ IsReported(c, C)
                                /\ drift.out.drift_type = c.type
                                /\ drift.out.severity = c.severity

\* meal skipping and energy irregularity both at severity 1: the earlier wins
C9_Witness ==
    /\ DriftReturned
    /\ drift.out.drift_detected
    /\ drift.out.drift_type = "meal_skipping"
    /\ \E c \in Candidates(DriftPatterns) :
           c.type = "energy_irregularity" /\ c.severity = drift.out.severity


-----------------------------------------------------------------------------

EnergyReturned == energy.phase = "returned"

\* C10: the cumulative stress score lies within [0,1] for every input, and is
\* exactly 1 when all five indicators fire together.
C10_StressLevelClamped ==
    EnergyReturned =>
        /\ RLe(Whole(0), energy.signals.level)
        /\ RLe(energy.signals.level, Whole(1))
        /\ Len(energy.signals.indicators) = 5 => energy.signals.level = Whole(1)

\* all five indicators fired on one input
C10_Witness ==
    /\ EnergyReturned
    /\ energy.signals.indicators =
           <<"low_energy_tags", "timing_irregularity", "light_meals",
             "heavy_late_meals", "logging_gap">>
    /\ energy.signals.level = Whole(1)

-----------------------------------------------------------------------------

GuardianReturned == guardian.phase = "returned" /\ ~guardian.out.raised

GuardianScored ==
    GuardianReturned /\ Has(guardian.out.value, "alignment_score")

\* C11: the alignment score Goal Guardian returns lies in [0,1] for every goal
\* text, recommendation text and recommendation type, also when the 0.7
\* multiplier and the 0.1 action penalty both apply to a score of 0.
C11_AlignmentScoreInRange ==
    GuardianScored =>
        /\ RLe(Whole(0), guardian.out.value.alignment_score)
        /\ RLe(guardian.out.value.alignment_score, Whole(1))

\* an action with a misalignment and no aligned keyword: 0 * 0.7 - 0.1
C11_Witness ==
    /\ GuardianScored
    /\ Get(guardian.context, "recommendation_type", "") = "action"
    /\ guardian.out.value.misaligned_elements # <<>>
    /\ guardian.out.value.aligned_keywords = <<>>
    /\ guardian.out.value.alignment_score = Whole(0)

\* C14: for the goal "I want more intuitive eating", the recommendation
\* "count your calories carefully" and no recommendation type, the rigid
\* calorie counting rule fires, should_modify is true and the modification
\* is the "Focus on how you feel ..." sentence.
C14_IntuitiveScenario ==
    (/\ GuardianReturned
     /\ guardian.context.user_goal = IntuitiveGoal
     /\ guardian.context.recommendation = CountCalories
     /\ ~Has(guardian.context, "recommendation_type")) =>
        /\ "Rigid calorie counting contradicts intuitive eating"
               \in Range(guardian.out.value.misaligned_elements)
        /\ guardian.out.value.should_modify
        /\ guardian.out.value.modification = Some(FocusOnFeel)

-----------------------------------------------------------------------------

\* the logged call of a stage
CallOf(stage) == calls[CHOOSE i \in DOMAIN calls : calls[i].stage = stage]

NutritionRan == Called("nutrition") /\ Has(results, "nutrition_result")

EmptyFoodsHandedOver ==
    NutritionRan
    /\ Get(CallOf("nutrition").kwargs.vision_result, "foods", <<>>) = <<>>

\* C12: whenever the vision output handed to the Nutrition Reasoner has an
\* empty food list, the nutrition result of the analysis has total_calories
\* {min 0, max 0} and uncertainty "high", and the stage made no text-model call
\* and no nutrition-lookup call.
C12_EmptyFoodsShortCircuit ==
    EmptyFoodsHandedOver =>
        /\ results["nutrition_result"]["total_calories"] = [min |-> 0, max |-> 0]
        /\ results["nutrition_result"]["uncertainty"] = "high"
        /\ CallOf("nutrition").remote = <<>>

\* the reasoner answered on the orchestrator's vision-failure default
C12_Witness ==
    /\ EmptyFoodsHandedOver
    /\ CallOf("nutrition").kwargs.vision_result = VisionDefault
    /\ agents["nutrition"] = EmptyNutrition

-----------------------------------------------------------------------------

\* meals divided by distinct tracked days
LoggingFrequency ==
    Frac(Len(DriftMeals), Max(Cardinality(TrackedDates), 1))

LoggingDeclineSignals ==
    {s \in Range(drift.drift_signals) : s.type = "logging_decline"}

\* the candidate rules are evaluated for 5 or more meals on 5 or more dates
RulesEvaluated ==
    DriftReturned /\ Len(DriftMeals) >= 5 /\ Cardinality(TrackedDates) >= 5

C13_WitnessClamped ==
    /\ RulesEvaluated
    /\ RLt(Whole(1), LoggingFrequency)
    /\ \E s \in LoggingDeclineSignals : s.severity = Whole(0)

-----------------------------------------------------------------------------

Lookups == 1..MaxLookups

\* the cache holds an entry for the key that was stored less than 7 days ago
FreshEntry(cache_key) ==
    /\ cache_key \in DOMAIN fdc.nutrition_cache
    /\ cache_key \in DOMAIN fdc.cache_timestamps
    /\ fdc.now - fdc.cache_timestamps[cache_key] < 7

\* in this step lookup p reaches the i-th search of its chain
Reaches(p, i) ==
    /\ fdc.lookups[p].pc \in {"ready", "waiting"}
    /\ fdc.lookups[p].idx < i
    /\ fdc'.lookups[p].idx = i
    /\ i <= Len(Chain(fdc.lookups[p].barcode))

CacheTTLStep ==
    \A p \in Lookups, i \in 1..3 :
        Reaches(p, i) =>
            LET cache_key ==
                    KeyOf(fdc.lookups[p], Chain(fdc.lookups[p].barcode)[i])
            IN  /\ FreshEntry(cache_key) =>
                       /\ fdc'.lookups[p].pc = "done"
                       /\ fdc'.lookups[p].out =
                              Return(Some(fdc.nutrition_cache[cache_key]))
                /\ ~FreshEntry(cache_key) => fdc'.lookups[p].pc = "waiting"

\* C15: a search is answered from the cache, without a remote request, only
\* if the entry for its normalized key was stored less than 7 days before the
\* read; with an entry 7 or more days old (or none) the remote catalog is
\* queried instead.
C15_CacheTTL == [][CacheTTLStep]_vars

LastConsulted(p) ==
    fdc.lookups[p].consulted[Len(fdc.lookups[p].consulted)]

\* a lookup waits for the catalog although the cache held an entry for its
\* key when it looked: the entry, stored on day 0, was 7 days old
C15_Witness ==
    \E p \in Lookups :
        /\ fdc.lookups[p].pc = "waiting"
        /\ LastConsulted(p).cached
        /\ fdc.now = 7
        /\ LET cache_key == KeyOf(fdc.lookups[p], LastConsulted(p).source)
           IN  /\ cache_key \in DOMAIN fdc.cache_timestamps
               /\ fdc.cache_timestamps[cache_key] = 0

\* a lookup was answered from the cache
C15_WitnessFresh ==
    \E p \in Lookups :
        /\ fdc.lookups[p].pc = "done"
        /\ fdc.lookups[p].consulted # <<>>
        /\ LastConsulted(p).via = "cache"

\* the record r answers a search of lookup p for p's own key
OwnRecord(p, r) ==
    /\ r.source \in Range(Chain(fdc.lookups[p].barcode))
    /\ get_cache_key(r.query, SourceTag(r.source))
           = KeyOf(fdc.lookups[p], r.source)

\* C16: under every interleaving of lookups and clear_cache, a finished
\* lookup has returned not-found or a record fetched for its own key, and the
\* data map and the timestamp map hold the same keys.
C16_BenignRace ==
    (fdc.phase = "running") =>
        /\ DOMAIN fdc.nutrition_cache = DOMAIN fdc.cache_timestamps
        /\ \A p \in Lookups :
               (fdc.lookups[p].pc = "done") =>
                   /\ ~fdc.lookups[p].out.raised
                   /\ fdc.lookups[p].out.value.some =>
                          OwnRecord(p, fdc.lookups[p].out.value.val)

\* two lookups with the same key both missed the cache and both fetched
C16_Witness ==
    \E p, q \in Lookups :
        /\ p # q
        /\ fdc.lookups[p].pc = "done" /\ fdc.lookups[q].pc = "done"
        /\ fdc.lookups[p].food_name # fdc.lookups[q].food_name
        /\ fdc.lookups[p].consulted = fdc.lookups[q].consulted
        /\ Len(fdc.lookups[p].consulted) = 1
        /\ LastConsulted(p).source = "fdc" /\ LastConsulted(p).via = "remote"
        /\ fdc.lookups[p].out.value.some /\ fdc.lookups[q].out.value.some

SourcesConsulted(p) ==
    [i \in DOMAIN fdc.lookups[p].consulted |->
        fdc.lookups[p].consulted[i].source]

\* a prefix of s
IsPrefix(t, s) == Len(t) <= Len(s) /\ t = SubSeq(s, 1, Len(t))

\* what a finished lookup returned comes from the last search it made, and
\* nothing found is seen by the reasoner as an empty dict
ReturnsLastOrNothing(p) ==
    (fdc.lookups[p].pc = "done") =>
        /\ ~fdc.lookups[p].out.raised
        /\ fdc.lookups[p].out.value.some =>
               /\ fdc.lookups[p].out.value.val.source = LastConsulted(p).source
               /\ fdc.lookups[p].seen = fdc.lookups[p].out.value.val
        /\ ~fdc.lookups[p].out.value.some => fdc.lookups[p].seen = EmptyDict

-----------------------------------------------------------------------------

\* C18: analyze_meal leaves the caller's user_profile, daily_meals_so_far and
\* historical_meals as they were, at every step and whatever the stages do.
C18_ArgumentsUntouched ==
    [][(pc # "idle") =>
          /\ req'.user_profile = req.user_profile
          /\ req'.daily_meals_so_far = req.daily_meals_so_far
          /\ req'.historical_meals = req.historical_meals]_vars

\* a finished analysis that was given a profile, today's meals and a history
C18_Witness ==
    /\ Done
    /\ req.user_profile.some
    /\ req.daily_meals_so_far.some /\ req.daily_meals_so_far.val # <<>>
    /\ req.historical_meals.some /\ req.historical_meals.val # <<>>

-----------------------------------------------------------------------------

OverallDone == overall.phase = "done"

\* the per-food confidences of the vision result the score was derived from
Confidences == FoodConfidences(overall.vision.value)

CountOf(level) ==
    Cardinality({i \in DOMAIN Confidences : Confidences[i] = level})

-----------------------------------------------------------------------------

NextActionReturned == nextact.phase = "returned" /\ ~nextact.out.raised

\* the figures the decision is taken on
GivenMeals == Get(nextact.context, "recent_meals", <<>>)

GivenGoal == Lower(Get(nextact.context, "user_goal", <<>>))

LastMealHour ==
    IF GivenMeals # <<>> /\ Has(GivenMeals[Len(GivenMeals)], "time")
       /\ GivenMeals[Len(GivenMeals)]["time"].valid
    THEN Some(GivenMeals[Len(GivenMeals)]["time"].h)
    ELSE None

HoursSinceLastMeal == hours_since_last_meal(GivenMeals, nextact.current_hour)

EnergyIsLow == Lower(Get(nextact.context, "user_energy", W_medium)) = W_low

UnderFueled ==
    HoursSinceLastMeal > 5 \/ (EnergyIsLow /\ HoursSinceLastMeal > 3)

StressSignalPresent ==
    \/ /\ Get(nextact.context["recent_drift"], "detected", FALSE) = TRUE
       /\ Get(nextact.context["recent_drift"], "type", "None")
              = "logging_decline"
    \/ Get(nextact.context["recent_drift"], "type", "None")
           = "energy_irregularity"
    \/ LastMealHour.some /\ LastMealHour.val > 21

Mentions(word) == Contains(GivenGoal, word)

MentionsConsistency ==
    Mentions(W_energy) \/ Mentions(W_focus) \/ Mentions(W_mood)
        \/ Mentions(W_consistent)

MentionsOtherFocus ==
    \/ Mentions(W_balance) \/ Mentions(W_intuitive) \/ Mentions(W_feel)
    \/ Mentions(W_weight) \/ Mentions(W_muscle) \/ Mentions(W_lose)
    \/ Mentions(W_gain)

\* the urgency and confidence returned
Verdict == <<nextact.out.value.urgency, nextact.out.value.confidence>>

\* the verdict of the priority tree whose third branch is taken when
\* consistencyFocus holds
TreeVerdict(consistencyFocus) ==
    IF UnderFueled THEN <<"high", Frac(85, 100)>>
    ELSE IF StressSignalPresent THEN <<"moderate", Frac(78, 100)>>
    ELSE IF consistencyFocus THEN <<"moderate", Frac(82, 100)>>
    ELSE <<"low", Frac(88, 100)>>

\* C20 as stated: the first matching branch wins, the consistency branch
\* being taken when the goal mentions energy, focus, mood or consistent, or
\* is unset.
C20_AsStated ==
    NextActionReturned =>
        Verdict = TreeVerdict(MentionsConsistency \/ GivenGoal = <<>>)

\* C20: the first matching branch wins: under-fueled gives high / 0.85, else
\* a stress signal gives moderate / 0.78, else a goal focus of consistency
\* gives moderate / 0.82, else low / 0.88; the focus is consistency when the
\* goal mentions energy, focus, mood or consistent, and also when it mentions
\* none of balance, intuitive, feel, weight, muscle, lose, gain (an unset goal
\* included).
C20_PriorityTree ==
    NextActionReturned =>
        Verdict = TreeVerdict(MentionsConsistency \/ ~MentionsOtherFocus)

\* a goal that is set and names no focus word, with neither under-fuelling
\* nor stress: the consistency branch is returned
C20_Witness ==
    /\ NextActionReturned
    /\ ~UnderFueled
    /\ ~StressSignalPresent
    /\ GivenGoal # <<>>
    /\ ~MentionsConsistency
    /\ ~MentionsOtherFocus
    /\ Verdict = <<"moderate", Frac(82, 100)>>

-----------------------------------------------------------------------------

\* the Drift Detector's result of this request reports a detected drift of
\* one of the two stress types
StressDriftReported ==
    /\ Has(agents, "drift_detection")
    /\ Get(agents["drift_detection"], "drift_detected", FALSE) = TRUE
    /\ Get(agents["drift_detection"], "drift_type", "none")
           \in {"logging_decline", "energy_irregularity"}

\* Next-Action returned a decision
NextActionDecided ==
    Has(agents, "next_action") /\ Has(agents["next_action"], "action_type")

\* C21: when the Drift Detector reports a detected logging_decline or
\* energy_irregularity and the under-fueled branch does not match, Next-Action
\* returns the stress-relief decision (moderate, 0.78) citing at most two
\* signals.
C21_StressReliefOnDrift ==
    (/\ StressDriftReported
     /\ NextActionDecided
     /\ agents["next_action"].action_type # "nutritional_intervention") =>
        /\ agents["next_action"].action_type = "stress_relief"
        /\ agents["next_action"].urgency = "moderate"
        /\ agents["next_action"].confidence = Frac(78, 100)
        /\ Len(agents["next_action"].reasoning) <= 3

-----------------------------------------------------------------------------

StrategyReturned == strategy.phase = "returned" /\ ~strategy.out.raised

\* the inputs as process reads them, defaults included
GivenAcceptance == Get(strategy.context, "acceptance_rate", Frac(5, 10))

GivenEngagement == Get(strategy.context, "engagement_trend", Whole(0))

GivenLogging == Get(strategy.context, "logging_frequency", Frac(15, 10))

GivenSuccess == Get(strategy.context, "intervention_success_rate", Frac(6, 10))

GivenDays == Get(strategy.context, "days_with_strategy", 3)

\* the number of the first trigger that is true, 0 when none is
FirstTrigger ==
    IF RLt(GivenAcceptance, Frac(4, 10)) THEN 1
    ELSE IF RLt(GivenEngagement, Frac(-2, 10)) THEN 2
    ELSE IF RLt(GivenLogging, Whole(1)) THEN 3
    ELSE IF RLt(GivenSuccess, Frac(35, 100)) THEN 4
    ELSE 0

\* what the n-th trigger reports: metric, value, threshold, confidence
TriggerReport(n) ==
    IF n = 1
    THEN <<"acceptance_rate", GivenAcceptance, Frac(4, 10), Frac(85, 100)>>
    ELSE IF n = 2
    THEN <<"engagement_trend", GivenEngagement, Frac(-2, 10), Frac(78, 100)>>
    ELSE IF n = 3
    THEN <<"logging_frequency", GivenLogging, Whole(1), Frac(82, 100)>>
    ELSE <<"intervention_success_rate", GivenSuccess, Frac(35, 100),
           Frac(75, 100)>>

\* C22: under 2 days on the strategy there is no switch ("insufficient
\* data"); otherwise the first true trigger in the order acceptance,
\* engagement, logging, intervention fires with its own metric, value,
\* threshold and confidence; with no true trigger there is no switch
\* ("Continue monitoring").
C22_FirstTriggerFires ==
    StrategyReturned =>
        IF GivenDays < 2
        THEN /\ ~strategy.out.value.strategy_switch
             /\ strategy.out.value.reason.text
                    = "Insufficient data for adaptation decision"
        ELSE IF FirstTrigger = 0
        THEN /\ ~strategy.out.value.strategy_switch
             /\ strategy.out.value.recommendation = "Continue monitoring"
        ELSE /\ strategy.out.value.strategy_switch
             /\ <<strategy.out.value.trigger_metric,
                   strategy.out.value.trigger_value,
                   strategy.out.value.threshold,
                   strategy.out.value.confidence>> = TriggerReport(FirstTrigger)

\* all four triggers are true after two days on the strategy, and the first
\* is the one reported
C22_Witness ==
    /\ StrategyReturned
    /\ GivenDays = 2
    /\ RLt(GivenAcceptance, Frac(4, 10))
    /\ RLt(GivenEngagement, Frac(-2, 10))
    /\ RLt(GivenLogging, Whole(1))
    /\ RLt(GivenSuccess, Frac(35, 100))
    /\ strategy.out.value.trigger_metric = "acceptance_rate"

-----------------------------------------------------------------------------

StrategySwitched == StrategyReturned /\ strategy.out.value.strategy_switch

SwitchGoal == Lower(Get(strategy.context, "user_goal", <<>>))

OldStrategy == Get(strategy.context, "current_strategy", S_calorie_focused)

\* C23: the new strategy follows the table: low acceptance on a
\* calorie-focused strategy with an energy goal gives meal_timing_focused,
\* disengagement gives minimal_tracking, logging burden gives
\* trend_only_summaries, intervention failure gives habit_stacking for a
\* consistency goal and goal_aligned_tracking otherwise.
C23_StrategyTable ==
    StrategySwitched =>
        /\ (/\ FirstTrigger = 1
            /\ Contains(OldStrategy, W_calorie)
            /\ Contains(SwitchGoal, W_energy)) =>
               strategy.out.value.new_strategy = "meal_timing_focused"
        /\ (FirstTrigger = 2) =>
               strategy.out.value.new_strategy = "minimal_tracking"
        /\ (FirstTrigger = 3) =>
               strategy.out.value.new_strategy = "trend_only_summaries"
        /\ (FirstTrigger = 4) =>
               strategy.out.value.new_strategy =
                   IF Contains(SwitchGoal, W_consistency)
                   THEN "habit_stacking" ELSE "goal_aligned_tracking"

-----------------------------------------------------------------------------

\* the Strategy Adapter stage of this request returned a verdict
StrategyVerdictGiven ==
    /\ Has(agents, "strategy_adapter")
    /\ ~Has(agents["strategy_adapter"], "error")

\* C30: whatever the request holds, a Strategy Adapter stage that does not
\* fail returns one and the same verdict, the one it gives on no inputs at
\* all: no switch, "Continue monitoring".
C30_VerdictIgnoresRequest ==
    StrategyVerdictGiven =>
        /\ agents["strategy_adapter"] = StrategyProcess(EmptyDict).value
        /\ ~agents["strategy_adapter"].strategy_switch
        /\ agents["strategy_adapter"].recommendation = "Continue monitoring"

\* a verdict for a request that carries a profile, meals of today and a
\* history
C30_Witness ==
    /\ StrategyVerdictGiven
    /\ req.user_profile.some
    /\ req.daily_meals_so_far.some
    /\ req.historical_meals.some /\ Len(req.historical_meals.val) > 1

-----------------------------------------------------------------------------

StreakReturned == streak.phase = "returned"

\* the calendar dates of the meals that carry a well-formed timestamp
WellFormedDates ==
    {d \in MealDates(streak.meals) : IsCalendarDate(d)}

\* the length of the longest run of consecutive dates in a set
LongestRun(dates) ==
    IF dates = {} THEN 0
    ELSE LET runs == {k \in 1..Cardinality(dates) :
                         \E d \in dates : \A j \in 0..(k - 1) : (d + j) \in dates}
         IN  CHOOSE k \in runs : \A o \in runs : o <= k

\* C25: the streak is the length of the longest run of consecutive calendar
\* dates among the history meals; a meal whose timestamp is missing or
\* malformed is skipped, and the computation never fails.
C25_StreakSkipsBadTimestamps ==
    StreakReturned =>
        /\ ~streak.out.raised
        /\ streak.out.value = LongestRun(WellFormedDates)

\* with every timestamp present and well formed, or missing, the streak is
\* the longest run of consecutive dates
StreakOfWellFormed ==
    (StreakReturned /\ WellFormedDates = MealDates(streak.meals)) =>
        /\ ~streak.out.raised
        /\ streak.out.value = LongestRun(WellFormedDates)

-----------------------------------------------------------------------------

\* the signals of a finished call say that an indicator fired
IndicatorFired == energy.phase = "returned" /\ energy.signals.detected

\* what _generate_intervention gives for the signals of the call
StatedIntervention ==
    generate_intervention(energy.signals.level, energy.signals.indicators)

\* C24: whenever at least one stress indicator fires, process returns a
\* stress_detected result whose intervention tier follows the cumulative
\* score (below 0.3 gentle reassurance, below 0.6 mild support, otherwise
\* significant support), with a message that embeds at most the top three
\* indicators and the medical disclaimer.
C24_InterventionByScore ==
    IndicatorFired =>
        /\ ~energy.out.raised
        /\ energy.out.value.stress_detected
        /\ energy.out.value.intervention_type = StatedIntervention.type
        /\ energy.out.value.suggested_message = StatedIntervention.message
        /\ Len(energy.out.value.suggested_message.indicators) <= 3
        /\ energy.out.value.medical_disclaimer

-----------------------------------------------------------------------------

\* a weekly reflection over a full week of meals
WeekReflected ==
    /\ weekly.phase = "returned"
    /\ ~weekly.out.raised
    /\ ~Has(weekly.out.value, "week_incomplete")

KeptPatterns == weekly.out.value.patterns_discovered

GentleFocus == weekly.out.value.gentle_focus

NegativeKept ==
    {i \in DOMAIN KeptPatterns : KeptPatterns[i].trend = "negative"}

FirstNegative == CHOOSE i \in NegativeKept : \A o \in NegativeKept : i <= o

\* the meal type a skipped-meal pattern is about
SkippedType(pattern) ==
    MealTypes[CHOOSE t \in 1..3 :
                  pattern = P_skipping \o MealTypes[t] \o P_leads_to_dips]

\* a positive pattern of the energy correlation survives the cut
PositiveEnergyKept ==
    \E i \in DOMAIN KeptPatterns :
        /\ KeptPatterns[i].trend = "positive"
        /\ \E t \in 1..4 :
               KeptPatterns[i].pattern = P_energy_highest \o MealTypes[t]

\* C26: over the kept patterns, the gentle focus is "try consistent <type>
\* timing" for the meal type of the first negative-trend pattern if there is
\* one; else the energy encouragement if a positive-trend energy-correlation
\* pattern is kept; else the default encouragement.
C26_GentleFocus ==
    WeekReflected =>
        /\ Len(KeptPatterns) <= 3
        /\ GentleFocus =
               IF NegativeKept # {}
               THEN F_timing(SkippedType(KeptPatterns[FirstNegative].pattern))
               ELSE IF PositiveEnergyKept THEN F_energy
               ELSE IF KeptPatterns = <<>> THEN F_keep_logging
               ELSE F_good_path

\* what the loop gives: the timing focus of the first negative pattern, and
\* without one a default encouragement, never the energy encouragement
FocusAsComputed ==
    WeekReflected =>
        GentleFocus =
            IF NegativeKept # {}
            THEN F_timing(SkippedType(KeptPatterns[FirstNegative].pattern))
            ELSE IF KeptPatterns = <<>> THEN F_keep_logging
            ELSE F_good_path

-----------------------------------------------------------------------------

GuardianScore == guardian.out.value.alignment_score

GuardianType == Get(guardian.context, "recommendation_type", "")

\* C27: for a non-empty goal, aligned_with_goal is true exactly when the
\* clamped score is strictly above 0.7, and a rewritten recommendation is
\* produced (should_modify true, modification not null) exactly when the
\* score is strictly below 0.7 and the type is action or insight; no result
\* is both aligned and modified, and at exactly 0.7 it is neither.
C27_ThresholdConsistent ==
    GuardianScored =>
        /\ guardian.out.value.aligned_with_goal
               <=> RLt(Frac(7, 10), GuardianScore)
        /\ guardian.out.value.should_modify
               <=> (/\ RLt(GuardianScore, Frac(7, 10))
                    /\ GuardianType \in {"action", "insight"})
        /\ guardian.out.value.modification.some
               <=> guardian.out.value.should_modify
        /\ ~(/\ guardian.out.value.aligned_with_goal
              /\ guardian.out.value.should_modify)
        /\ (GuardianScore = Frac(7, 10)) =>
               /\ ~guardian.out.value.aligned_with_goal
               /\ ~guardian.out.value.should_modify

\* an action whose score is exactly 0.7: every keyword of the goal found and
\* one misalignment
C27_Witness ==
    /\ GuardianScored
    /\ GuardianType = "action"
    /\ GuardianScore = Frac(7, 10)
    /\ guardian.out.value.misaligned_elements # <<>>
    /\ ~guardian.out.value.aligned_with_goal
    /\ ~guardian.out.value.modification.some

-----------------------------------------------------------------------------

\* the logging_decline trigger holds: 5 or more tracked days, fewer than 1.5
\* meals a day
LoggingDeclineTriggered == RulesEvaluated /\ LoggingDeclineSignals # {}

\* C28: Drift Detection's process never reports logging_decline as the drift
\* type: with 5 or more tracked days, whenever the logging_decline trigger
\* holds the meal_skipping trigger holds too, with severity 1.0 (3 * days -
\* meals is above 7), which is at least the logging_decline severity and
\* comes first in the evaluation order.
C28_NeverLoggingDecline ==
    /\ DriftReturned =>
           Get(drift.out, "drift_type", "none") # "logging_decline"
    /\ LoggingDeclineTriggered =>
           /\ 3 * Cardinality(TrackedDates) - Len(DriftMeals) > 7
           /\ drift.drift_signals[1] =
                  [type |-> "meal_skipping", severity |-> Whole(1)]
           /\ \A s \in LoggingDeclineSignals :
                  RLe(s.severity, drift.drift_signals[1].severity)
           /\ drift.out.drift_detected
           /\ drift.out.drift_type = "meal_skipping"

\* fewer than 1.5 meals a day over 5 or more days: both rules are candidates
\* and meal_skipping is the one reported
C28_Witness ==
    /\ LoggingDeclineTriggered
    /\ Len(drift.drift_signals) >= 2
    /\ drift.drift_signals[2].type = "logging_decline"
    /\ drift.out.drift_type = "meal_skipping"

-----------------------------------------------------------------------------

\* the user of this request has no goal: no profile, or a profile whose goal
\* is missing, empty or None
NoGoal ==
    \/ ~req.user_profile.some
    \/ ~Has(req.user_profile.val, "goal")
    \/ req.user_profile.val["goal"] = <<>>
    \/ IsNull(req.user_profile.val["goal"])

\* what GoalGuardianAgent.process gives on the context the stage handed it
GuardianStageOutcome == GoalGuardianProcess(Args("goal_guardian").context)

\* C29: when the user has no goal (no profile, or a goal that is missing,
\* empty or None), the Goal Guardian stage yields the "no goal set" result
\* (aligned_with_goal true, goal_progress 0.0, no alignment scoring), not a
\* failure marker.
C29_NoGoalResult ==
    (NoGoal /\ Called("goal_guardian")) =>
        /\ ~GuardianStageOutcome.raised
        /\ GuardianStageOutcome.value = NoGoalResult
        /\ GuardianStageOutcome.value.aligned_with_goal
        /\ GuardianStageOutcome.value.goal_progress = Whole(0)
        /\ ~Has(GuardianStageOutcome.value, "alignment_score")

\* the same for a goal that is missing or empty, or no profile
NoGoalResultUnlessNull ==
    (/\ NoGoal
     /\ Called("goal_guardian")
     /\ ~(req.user_profile.some /\ Has(req.user_profile.val, "goal")
           /\ IsNull(req.user_profile.val["goal"]))) =>
        /\ GuardianStageOutcome = Return(NoGoalResult)
        /\ Has(agents, "goal_guardian") =>
               agents["goal_guardian"] \in {NoGoalResult, ErrorMarker}

=============================================================================
